---- MODULE Spec2Model ----
(***************************************************************************)
(* Process registry (runClaude / stopClaude / hasActiveProcess), the       *)
(* submission queue and the drain loop (handlePrompt / runAndDrain) of the *)
(* Telegram bridge, as one state machine.  One step of the model is one    *)
(* turn of the single-threaded event loop: everything a handler does       *)
(* between two awaits that wait on I/O, a timer or the child process.      *)
(* Continuations that are only a promise reaction away (an await on an     *)
(* already completing promise) run in the same turn as the step that       *)
(* settles the promise.                                                    *)
(***************************************************************************)
EXTENDS Integers, Sequences, FiniteSets, TLC

\* ---------------------------------------------------------------- bounds
MaxPayloads == 3        \* text messages the user sends
MaxCmds == 1            \* /stop, /project and queue button presses
MaxDeepPayloads == 4    \* text messages sent while one directory is used
MaxStream == 4          \* characters the process writes to stdout

\* ------------------------------------------------------------- universes
UserId == 1
Cwds == {"w1", "w2"}
Payloads == 1..MaxDeepPayloads
Runs == 1..MaxDeepPayloads  \* every run consumes one submission or queue entry
NoRun == 0

processKey(userId, cwd) == <<userId, cwd>>
Keys == {processKey(UserId, c) : c \in Cwds}

VARIABLES
  userProcesses,         \* key -> run whose {ac, done} entry is stored, or NoRun
  runPc,                 \* position of each runClaude generator
  runKey,                \* key the run was invoked for
  runPrompt,             \* prompt (sequence of payloads) passed to the run
  aborted,               \* ac.signal.aborted of the run's AbortController
  procLive,              \* the spawned child process has not exited yet
  resolveCount,          \* how often resolveCleanup() was called for the run
  runEvents,             \* Error events yielded by the guard at the head of runClaude
  waitOrder,             \* runs suspended at `await existing.done`, in order
  waitsOn,               \* the run whose done promise a waiting run awaits
  nextRun,               \* next unused run id
  hp,                    \* position of the handler / drain loop of a payload
  loopCwd,               \* cwd of the runAndDrain loop started by a payload
  loopPrompt,            \* currentPrompt of that loop
  loopRun,               \* the run that loop is currently streaming
  queue,                 \* state.queue
  queueStatusMessageId,  \* state.queueStatusMessageId (0 = undefined)
  pendingCleanup,        \* command handlers awaiting deleteMessage in cleanupQueueStatus
  activeCwd,             \* getEffectiveCwd(state)
  submitted,             \* number of payloads submitted so far
  cmds,                  \* number of commands issued so far
  spawnLog,              \* history: the runs that spawned a process, in spawn order
  discarded,             \* history: payloads removed by an explicit discard
  stopPending,           \* history: payloads queued and not yet run when a /stop was handled
  forceQueued,           \* history: payloads queued behind a run that Force Send cancelled
  wtExists,              \* state.worktrees holds the worktree whose path is "w2"
  rl,                    \* one runClaude call from spawn to the end of finally
  sp,                    \* the stdout read loop of a run and its stream parser
  tg,                    \* one streamToTelegram call: renderer, timers and platform
  ss,                    \* state.sessions and the runAndDrain loops that read and write it
  tb,                    \* the stream parser fed record by record, with its content blocks
  ft                     \* one flushText call on a text longer than a message

botVars == <<userProcesses, runPc, runKey, runPrompt, aborted, procLive,
          resolveCount, runEvents, waitOrder, waitsOn, nextRun, hp, loopCwd,
          loopPrompt, loopRun, queue, queueStatusMessageId, pendingCleanup,
          activeCwd, submitted, cmds, spawnLog, discarded, stopPending,
          forceQueued, wtExists>>

\* state of the machines that are looked at on their own
auxVars == <<rl, sp, tg, ss, tb, ft>>

vars == <<botVars, auxVars>>

runVars == <<runPc, runKey, runPrompt, aborted, procLive,
             resolveCount, runEvents, waitOrder, waitsOn, nextRun>>
loopVars == <<hp, loopCwd, loopPrompt, loopRun>>
histVars == <<spawnLog, discarded, stopPending, forceQueued>>

\* ---------------------------------------------------------------- helpers
Range(s) == {s[i] : i \in 1..Len(s)}

RECURSIVE SelectSeqIdx(_, _, _)
\* indices i >= from of s with the given targetCwd, ascending
SelectSeqIdx(s, cwd, from) ==
  IF from > Len(s) THEN <<>>
  ELSE IF s[from].targetCwd = cwd
       THEN <<from>> \o SelectSeqIdx(s, cwd, from + 1)
       ELSE SelectSeqIdx(s, cwd, from + 1)

\* state.queue.findIndex((q) => q.targetCwd === cwd), 0 standing for -1
findIndex(q, cwd) ==
  LET idx == SelectSeqIdx(q, cwd, 1) IN IF idx = <<>> THEN 0 ELSE idx[1]

\* state.queue.splice(idx, 1): the queue without its idx-th entry
splice(q, idx) == SubSeq(q, 1, idx - 1) \o SubSeq(q, idx + 1, Len(q))

\* state.queue.filter((q) => q.targetCwd !== cwd)
filterOut(q, cwd) == SelectSeq(q, LAMBDA e : e.targetCwd # cwd)

\* variant that asks for any live entry of the user, whatever its cwd
hasActiveProcessAnyCwd(cwd) ==
  \E k \in Keys : userProcesses[k] # NoRun /\ ~aborted[userProcesses[k]]

\* hasActiveProcess(userId, cwd)
hasActiveProcess(cwd) ==
  LET entry == userProcesses[processKey(UserId, cwd)]
  IN entry # NoRun /\ ~aborted[entry]

\* ------------------------------------------------------------- runClaude
\* variant without the busy guard: a live entry is replaced
runClaudeEntryNoGuard(key) ==
  LET existing == userProcesses[key]
  IN IF existing # NoRun /\ aborted[existing] THEN "wait" ELSE "spawn"

\* the guard at the head of runClaude: what the call does with the entry
\* it finds under its key
runClaudeEntry(key) ==
  LET existing == userProcesses[key]
  IN IF existing = NoRun THEN "spawn"
     ELSE IF ~aborted[existing] THEN "busy"
     ELSE "wait"

\* runs suspended at `await existing.done` on run r, in the order they began
\* to wait (their continuations are queued in that order when done resolves)
WaitersOn(r) == SelectSeq(waitOrder, LAMBDA w : waitsOn[w] = r)

Last(s) == s[Len(s)]


\* The first next() on the generator returned by runClaude, which the
\* renderer issues in the same turn as the call: the busy guard, and with no
\* entry under the key userProcesses.set and spawn.
StartRun(l, cwd, prompt) ==
  LET r == nextRun
      key == processKey(UserId, cwd)
      d == runClaudeEntry(key)
  IN /\ nextRun' = nextRun + 1
     /\ runKey' = [runKey EXCEPT ![r] = key]
     /\ runPrompt' = [runPrompt EXCEPT ![r] = prompt]
     /\ loopRun' = [loopRun EXCEPT ![l] = r]
     /\ loopCwd' = [loopCwd EXCEPT ![l] = cwd]
     /\ loopPrompt' = [loopPrompt EXCEPT ![l] = prompt]
     /\ hp' = [hp EXCEPT ![l] = IF d = "busy" THEN "final" ELSE "stream"]
     /\ runPc' = [runPc EXCEPT ![r] =
                    CASE d = "busy" -> "rejected"
                      [] d = "wait" -> "waitDone"
                      [] OTHER -> "reading"]
     /\ runEvents' = [runEvents EXCEPT ![r] =
                        IF d = "busy" THEN <<"busy">> ELSE <<>>]
     /\ waitsOn' = [waitsOn EXCEPT ![r] =
                      IF d = "wait" THEN userProcesses[key] ELSE NoRun]
     /\ waitOrder' = IF d = "wait" THEN Append(waitOrder, r) ELSE waitOrder
     /\ userProcesses' = IF d = "spawn"
                           THEN [userProcesses EXCEPT ![key] = r]
                           ELSE userProcesses
     /\ procLive' = IF d = "spawn" THEN [procLive EXCEPT ![r] = TRUE]
                    ELSE procLive
     /\ spawnLog' = IF d = "spawn"
                      THEN Append(spawnLog, r)
                      ELSE spawnLog
     /\ UNCHANGED <<aborted, resolveCount>>

\* the run timer fires: setTimeout(() => { ...; ac.abort() }, DEFAULT_TIMEOUT_MS)
Timeout(r) ==
  /\ runPc[r] = "reading"
  /\ ~aborted[r]
  /\ aborted' = [aborted EXCEPT ![r] = TRUE]
  /\ UNCHANGED <<userProcesses, runPc, runKey, runPrompt, procLive,
                 resolveCount, runEvents, waitOrder, waitsOn, nextRun,
                 loopVars, queue, queueStatusMessageId, pendingCleanup,
                 activeCwd, submitted, cmds, histVars, wtExists>>
  /\ UNCHANGED auxVars

\* the child process exits while the read loop runs: by itself or on the
\* abort signal
ProcExit(r) ==
  /\ runPc[r] = "reading"
  /\ procLive[r]
  /\ procLive' = [procLive EXCEPT ![r] = FALSE]
  /\ UNCHANGED <<userProcesses, runPc, runKey, runPrompt, aborted,
                 resolveCount, runEvents, waitOrder, waitsOn, nextRun,
                 loopVars, queue, queueStatusMessageId, pendingCleanup,
                 activeCwd, submitted, cmds, histVars, wtExists>>
  /\ UNCHANGED auxVars

\* Leaving the try block of runClaude for the finally block (clearTimeout,
\* proc.kill(), await proc.exited).  The events the read loop, the exit code
\* check and the catch block yield on the way are not part of this state.
EnterFinally(r) ==
  /\ runPc' = [runPc EXCEPT ![r] = "finally"]
  /\ UNCHANGED <<userProcesses, runKey, runPrompt, aborted, procLive,
                 resolveCount, runEvents, waitOrder, waitsOn, nextRun,
                 loopVars, queue, queueStatusMessageId, pendingCleanup,
                 activeCwd, submitted, cmds, histVars, wtExists>>
  /\ UNCHANGED auxVars

\* the read loop sees the end of stdout (the process has exited), awaits
\* proc.exited and yields the stderr Error event on a non-zero exit code
ReadEnd(r) ==
  /\ runPc[r] = "reading"
  /\ ~procLive[r]
  /\ EnterFinally(r)

\* reader.read() rejects (read failure, or the abort tearing the pipe down):
\* the catch block yields its Error event
ReadFail(r) ==
  /\ runPc[r] = "reading"
  /\ EnterFinally(r)

\* the renderer throws while it handles an event: for await calls return()
\* on the generator suspended at a yield, which runs the finally block
RendererThrows(r) ==
  /\ runPc[r] = "reading"
  /\ EnterFinally(r)

\* variant of the finally block without userProcesses.delete
finallyKeep(r, key) == userProcesses[key]

\* what the end of the finally block leaves under the key before any waiter
\* resumes: userProcesses.delete(telegramUserId)
finallyDelete(r, key) == NoRun

\* variant of the finally block that never calls resolveCleanup()
finallyNoResolve(r) == 0

\* how often the finally block calls resolveCleanup()
finallyResolve(r) == 1

\* The end of the finally block: proc.kill() has reaped the process
\* (await proc.exited, await stderrDrain), then userProcesses.delete and
\* resolveCleanup().  Every run suspended at
\* `await existing.done` on this run resumes in the same turn, in waiting
\* order, and each of them does userProcesses.set and spawn without looking
\* at the registry again.  The renderer's for await then ends.
Finally(r) ==
  LET key == runKey[r]
      ws == WaitersOn(r)
      l == CHOOSE p \in Payloads : loopRun[p] = r
  IN /\ runPc[r] = "finally"
     /\ runPc' = [x \in Runs |->
                    IF x = r THEN "closed"
                    ELSE IF x \in Range(ws) THEN "reading" ELSE runPc[x]]
     /\ resolveCount' = [resolveCount EXCEPT ![r] = @ + finallyResolve(r)]
     /\ userProcesses' = [userProcesses EXCEPT ![key] =
                            IF ws = <<>> THEN finallyDelete(r, key)
                            ELSE Last(ws)]
     /\ procLive' = [x \in Runs |->
                       IF x \in Range(ws) THEN TRUE
                       ELSE IF x = r THEN FALSE ELSE procLive[x]]
     /\ spawnLog' = spawnLog \o ws
     /\ waitOrder' = SelectSeq(waitOrder, LAMBDA w : waitsOn[w] # r)
     /\ waitsOn' = [x \in Runs |-> IF x \in Range(ws) THEN NoRun ELSE waitsOn[x]]
     /\ hp' = [hp EXCEPT ![l] = "final"]
     /\ UNCHANGED <<runKey, runPrompt, aborted, runEvents, nextRun,
                    loopCwd, loopPrompt, loopRun, queue, queueStatusMessageId,
                    pendingCleanup, activeCwd, submitted, cmds, discarded, stopPending,
                    forceQueued, wtExists>>
     /\ UNCHANGED auxVars

\* variant that aborts whatever entry it finds
stopClaudeUnchecked(ab, key) ==
  LET entry == userProcesses[key]
  IN IF entry = NoRun
       THEN [aborted |-> ab, returned |-> FALSE]
       ELSE [aborted |-> [ab EXCEPT ![entry] = TRUE], returned |-> TRUE]

\* stopClaude on the entry under the key, with the abort flags ab: the
\* flags it leaves and the value it returns; the map itself is not written
stopClaude(ab, key) ==
  LET entry == userProcesses[key]
  IN IF entry = NoRun \/ ab[entry]
       THEN [aborted |-> ab, returned |-> FALSE]
       ELSE [aborted |-> [ab EXCEPT ![entry] = TRUE], returned |-> TRUE]

\* stopClaude(userId, cwd): abort the entry under the key
stopClaudeKey(key) == stopClaude(aborted, key).aborted

\* stopClaude(userId) without cwd: abort every entry of the user
stopClaudeAll ==
  [r \in Runs |->
     IF \E k \in Keys : userProcesses[k] = r THEN TRUE ELSE aborted[r]]

\* ------------------------------------------------- one run, event by event
\* One runClaude call after spawn, with what decides the Error event it
\* yields: the timedOut flag, the abort signal, the exit code and the stderr
\* text.  `cause` is history: what aborted the run while its process was
\* still alive.
ExitCodes == {0, 1}
KilledCode == 143
StderrTexts == {"", "E"}

rlInit ==
  [pc |-> "reading", aborted |-> FALSE, cause |-> "none", timedOut |-> FALSE,
   timerSet |-> TRUE, proc |-> "live", exitCode |-> 0, stderrBuffer |-> "",
   events |-> <<>>]

ErrorEvent(label, detail) == [kind |-> "error", label |-> label, detail |-> detail]

notRl == <<botVars, sp, tg, ss, tb, ft>>

\* stopClaude: the entry is in the registry until the end of finally
RlStop ==
  /\ rl.pc # "closed"
  /\ ~rl.aborted
  /\ rl' = [rl EXCEPT !.aborted = TRUE,
                      !.cause = IF rl.proc = "live" /\ rl.pc = "reading"
                                  THEN "stop" ELSE @]
  /\ UNCHANGED notRl

\* setTimeout(() => { timedOut = true; ac.abort() }, DEFAULT_TIMEOUT_MS)
RlTimer ==
  /\ rl.timerSet
  /\ rl' = [rl EXCEPT !.timedOut = TRUE,
                      !.timerSet = FALSE,
                      !.aborted = TRUE,
                      !.cause = IF ~rl.aborted /\ rl.proc = "live"
                                     /\ rl.pc = "reading"
                                  THEN "timer" ELSE @]
  /\ UNCHANGED notRl

\* the process writes to stderr, the stderrDrain reader appends it
RlStderr ==
  /\ rl.proc = "live"
  /\ rl.pc = "reading"
  /\ rl.stderrBuffer = ""
  /\ rl' = [rl EXCEPT !.stderrBuffer = "E"]
  /\ UNCHANGED notRl

\* the process ends by itself
RlExit(code) ==
  /\ rl.proc = "live"
  /\ rl.pc = "reading"
  /\ ~rl.aborted
  /\ rl' = [rl EXCEPT !.proc = "exited", !.exitCode = code]
  /\ UNCHANGED notRl

\* the abort signal passed to spawn has killed the process; its stdout then
\* ends like that of any process that has exited
RlKilled ==
  /\ rl.proc = "live"
  /\ rl.pc = "reading"
  /\ rl.aborted
  /\ rl' = [rl EXCEPT !.proc = "killed", !.exitCode = KilledCode]
  /\ UNCHANGED notRl

\* the message of the Error event after the read loop
exitMessage(buf, code) == IF buf # "" THEN buf ELSE "exit code"

\* reader.read() returns done: the loop ends, proc.exited is awaited and a
\* non-zero exit code yields the stderr text or the exit code
RlReadEnd ==
  /\ rl.pc = "reading"
  /\ rl.proc # "live"
  /\ rl' = IF rl.exitCode # 0
             THEN [rl EXCEPT !.pc = "yielded",
                             !.events = Append(@, ErrorEvent("failure",
                                 exitMessage(rl.stderrBuffer, rl.exitCode)))]
             ELSE [rl EXCEPT !.pc = "tearing", !.timerSet = FALSE]
  /\ UNCHANGED notRl

\* the reason the catch block reports
catchReason(timedOut) == IF timedOut THEN "timeout" ELSE "stopped"

\* reader.read() rejects, because the abort tears the pipe down or because
\* the read from the running process fails: the catch block yields its
\* Error event
RlReadThrows ==
  /\ rl.pc = "reading"
  /\ rl.aborted \/ rl.proc = "live"
  /\ rl' = [rl EXCEPT !.pc = "yielded",
                      !.events = Append(@, ErrorEvent(catchReason(rl.timedOut),
                                                      rl.stderrBuffer))]
  /\ UNCHANGED notRl

\* the consumer asks for the next event after the Error event: the finally
\* block starts with clearTimeout and proc.kill()
RlResume ==
  /\ rl.pc = "yielded"
  /\ rl' = [rl EXCEPT !.pc = "tearing", !.timerSet = FALSE]
  /\ UNCHANGED notRl

\* the rest of the finally block: proc.exited and stderrDrain awaited, the
\* registry entry deleted, resolveCleanup()
RlFinally ==
  /\ rl.pc = "tearing"
  /\ rl' = [rl EXCEPT !.pc = "closed",
                      !.proc = IF @ = "live" THEN "killed" ELSE @,
                      !.exitCode = IF rl.proc = "live" THEN KilledCode ELSE @]
  /\ UNCHANGED notRl

RunNext ==
  \/ RlStop
  \/ RlTimer
  \/ RlStderr
  \/ \E code \in ExitCodes : RlExit(code)
  \/ RlKilled
  \/ RlReadEnd
  \/ RlReadThrows
  \/ RlResume
  \/ RlFinally

\* ------------------------------------------------ read loop, stream parser
\* stdout as characters (the TextDecoder runs in streaming mode, so a chunk
\* boundary never splits a character).  A line stands for one record:
\*   B  content_block_start of a text block      K  ... of a thinking block
\*   T  content_block_delta with a text_delta     S  content_block_stop
\*   N  the JSON value null
\* and every other line is not valid JSON.
NL == "nl"
SPC == " "
StreamChars == {"B", "K", "T", "S", "N", SPC, NL}

\* buffer.split("\n")
RECURSIVE split(_)
split(s) ==
  IF \A i \in 1..Len(s) : s[i] # NL THEN <<s>>
  ELSE LET i == CHOOSE j \in 1..Len(s) :
                  s[j] = NL /\ \A k \in 1..(j - 1) : s[k] # NL
       IN <<SubSeq(s, 1, i - 1)>> \o split(SubSeq(s, i + 1, Len(s)))

\* line.trim()
RECURSIVE trim(_)
trim(s) ==
  IF s = <<>> THEN s
  ELSE IF Head(s) = SPC THEN trim(Tail(s))
  ELSE IF s[Len(s)] = SPC THEN trim(SubSeq(s, 1, Len(s) - 1))
  ELSE s

\* JSON.parse(trimmed): the record, or "SyntaxError"
JSONparse(t) ==
  CASE t = <<"B">> -> "start_text"
    [] t = <<"K">> -> "start_thinking"
    [] t = <<"T">> -> "text_delta"
    [] t = <<"S">> -> "block_stop"
    [] t = <<"N">> -> "null"
    [] OTHER -> "SyntaxError"

\* variant in which the SyntaxError leaves parseStreamLines
onSyntaxErrorThrow == "throw"

\* what the catch around JSON.parse does with the line: `continue`
onSyntaxError == "skip"

\* state of the closure returned by createStreamParser, with the events
\* yielded so far; threw: an exception left parseStreamLines
parserInit == [block |-> "null", events |-> <<>>, threw |-> FALSE]

\* the body of the for loop of parseStreamLines for one line
parseLine(ps, line) ==
  LET trimmed == trim(line)
      parsed == JSONparse(trimmed)
  IN IF ps.threw \/ trimmed = <<>> THEN ps
     ELSE CASE parsed = "SyntaxError" ->
                 IF onSyntaxError = "skip" THEN ps
                 ELSE [ps EXCEPT !.threw = TRUE]
            [] parsed = "null" -> [ps EXCEPT !.threw = TRUE]
            [] parsed = "start_text" -> [ps EXCEPT !.block = "text"]
            [] parsed = "start_thinking" ->
                 [ps EXCEPT !.block = "thinking",
                            !.events = Append(@, "thinking_start")]
            [] parsed = "text_delta" ->
                 IF ps.block = "text"
                   THEN [ps EXCEPT !.events = Append(@, "text_delta")]
                   ELSE ps
            [] parsed = "block_stop" ->
                 [ps EXCEPT !.block = "null",
                            !.events = IF ps.block = "thinking"
                                         THEN Append(@, "thinking_done")
                                         ELSE @]
            [] OTHER -> ps

\* parseStreamLines(lines)
RECURSIVE parseStreamLines(_, _)
parseStreamLines(ps, lines) ==
  IF lines = <<>> THEN ps
  ELSE parseStreamLines(parseLine(ps, Head(lines)), Tail(lines))

\* variant that forgets the piece after the last newline
carryNothing(lines) == <<>>

\* lines.pop() ?? "": what stays in the buffer after a chunk
carryOver(lines) == lines[Len(lines)]

\* one pass of the read loop over a chunk: append, split, keep the last
\* piece, parse the others
readChunk(st, chunk) ==
  LET lines == split(st.buffer \o chunk)
  IN [buffer |-> carryOver(lines),
      ps |-> parseStreamLines(st.ps, SubSeq(lines, 1, Len(lines) - 1))]

\* after the loop: if (buffer.trim()) yield* parseStreamLines([buffer])
readDone(st) ==
  IF trim(st.buffer) # <<>>
    THEN [st EXCEPT !.ps = parseStreamLines(st.ps, <<st.buffer>>)]
    ELSE st

spInit ==
  [written |-> <<>>, pending |-> <<>>, eof |-> FALSE, pc |-> "reading",
   midLine |-> FALSE,
   st |-> [buffer |-> <<>>, ps |-> parserInit]]

notSp == <<botVars, rl, tg, ss, tb, ft>>

\* the process writes a character to stdout
SpWrite(c) ==
  /\ ~sp.eof
  /\ Len(sp.written) < MaxStream
  /\ sp' = [sp EXCEPT !.written = Append(@, c), !.pending = Append(@, c)]
  /\ UNCHANGED notSp

\* the process closes stdout
SpClose ==
  /\ ~sp.eof
  /\ sp' = [sp EXCEPT !.eof = TRUE]
  /\ UNCHANGED notSp

\* reader.read() returns the first n characters not read yet
SpRead(n) ==
  /\ sp.pc = "reading"
  /\ n \in 1..Len(sp.pending)
  /\ LET st2 == readChunk(sp.st, SubSeq(sp.pending, 1, n))
     IN sp' = [sp EXCEPT !.pending = SubSeq(@, n + 1, Len(@)),
                         !.midLine = @ \/ sp.st.buffer # <<>>,
                         !.st = st2,
                         !.pc = IF st2.ps.threw THEN "done" ELSE "reading"]
  /\ UNCHANGED notSp

\* reader.read() returns done
SpDone ==
  /\ sp.pc = "reading"
  /\ sp.eof
  /\ sp.pending = <<>>
  /\ sp' = [sp EXCEPT !.st = readDone(@), !.pc = "done"]
  /\ UNCHANGED notSp

ParserNext ==
  \/ \E c \in StreamChars : SpWrite(c)
  \/ SpClose
  \/ \E n \in 1..MaxStream : SpRead(n)
  \/ SpDone

\* ---- renderer section ----
\* bounds of the renderer model
MaxEvents == 3
MaxTicks == 2
MaxRejects == 1
\* the clock advances in steps of ClockStep ms from StartTime, the value of
\* Date.now() when streamToTelegram is called
ClockStep == 1500
StartTime == 3000
MaxTime == StartTime + MaxTicks * ClockStep

\* ---- the renderer: streamToTelegram (src/src/telegram.ts) ----

MAX_MSG_LENGTH == 4000
EDIT_INTERVAL_MS == 1500

\* A string is kept run-length encoded: a sequence of runs [c, n] standing for
\* n copies of the piece c. The pieces of a response are "x" (an ordinary
\* character), "&" and NL; the other pieces are the fixed strings the
\* renderer itself produces. Width is the number of characters of a piece.
Width(c) ==
  CASE c = "&amp;" -> 5
    [] c = "<i>t</i>" -> 8
    [] c = "<blockquote expandable>" -> 23
    [] c = "</blockquote>" -> 13
    [] c = "<i>Thinking...</i>" -> 18
    [] c = "<i>Thought for 1.0s</i>" -> 23
    [] c = "[Error: e]" -> 10
    [] c = "<i>Project: p</i>" -> 17
    [] c = "Project: p" -> 10
    [] c = "<i>Project: p | Cost: $0.0100 | Time: 1.0s</i>" -> 46
    [] c = "Project: p | Cost: $0.0100 | Time: 1.0s" -> 39
    [] OTHER -> 1

str(c, n) == IF n = 0 THEN <<>> ELSE <<[c |-> c, n |-> n]>>

\* text.length
RECURSIVE length(_)
length(t) ==
  IF t = <<>> THEN 0 ELSE Head(t).n * Width(Head(t).c) + length(Tail(t))

\* a + b
concat(a, b) ==
  IF a = <<>> THEN b
  ELSE IF b = <<>> THEN a
  ELSE IF a[Len(a)].c = b[1].c
    THEN SubSeq(a, 1, Len(a) - 1)
           \o <<[c |-> b[1].c, n |-> a[Len(a)].n + b[1].n]>> \o Tail(b)
    ELSE a \o b

\* text.slice(0, k), for a text of pieces of width 1
RECURSIVE sliceTo(_, _)
sliceTo(t, k) ==
  IF k <= 0 \/ t = <<>> THEN <<>>
  ELSE IF Head(t).n <= k
    THEN concat(<<Head(t)>>, sliceTo(Tail(t), k - Head(t).n))
    ELSE <<[c |-> Head(t).c, n |-> k]>>

\* variant of text.slice(k) that leaves out the character at k as well
RECURSIVE sliceBehind(_, _)
sliceBehind(t, k) ==
  IF t = <<>> THEN <<>>
  ELSE IF k < 0 THEN t
  ELSE IF Head(t).n <= k
    THEN sliceBehind(Tail(t), k - Head(t).n)
    ELSE concat(str(Head(t).c, Head(t).n - k - 1), Tail(t))

\* text.slice(k), for a text of pieces of width 1
RECURSIVE sliceFrom(_, _)
sliceFrom(t, k) ==
  IF t = <<>> THEN <<>>
  ELSE IF k <= 0 THEN t
  ELSE IF Head(t).n <= k
    THEN sliceFrom(Tail(t), k - Head(t).n)
    ELSE <<[c |-> Head(t).c, n |-> Head(t).n - k]>> \o Tail(t)

\* text.lastIndexOf(ch, from): the largest index <= from that holds ch, or -1;
\* off is the index of the first character of t
RECURSIVE lastIndexFrom(_, _, _, _)
lastIndexFrom(t, ch, from, off) ==
  IF t = <<>> THEN -1
  ELSE LET later == lastIndexFrom(Tail(t), ch, from, off + Head(t).n)
       IN IF later # -1 THEN later
          ELSE IF Head(t).c = ch /\ off <= from
            THEN (IF off + Head(t).n - 1 < from THEN off + Head(t).n - 1 ELSE from)
            ELSE -1

lastIndexOf(t, ch, from) == lastIndexFrom(t, ch, from, 0)

\* escapeHtml: of the pieces of a response only "&" is replaced
escapeHtml(t) ==
  [i \in 1..Len(t) |->
     IF t[i].c = "&" THEN [c |-> "&amp;", n |-> t[i].n] ELSE t[i]]

\* markdownToTelegramHtml: a response made of "x", "&" and NL holds no
\* Markdown markup, so what is left of the conversion is the escaping
markdownToTelegramHtml(md) == escapeHtml(md)

\* formatFooter(projectName, result) for the project named "p"
formatFooter(hasResult) ==
  IF hasResult THEN str("<i>Project: p | Cost: $0.0100 | Time: 1.0s</i>", 1)
               ELSE str("<i>Project: p</i>", 1)

\* formatFooterPlain(projectName, result)
formatFooterPlain(hasResult) ==
  IF hasResult THEN str("Project: p | Cost: $0.0100 | Time: 1.0s", 1)
               ELSE str("Project: p", 1)

\* variant that takes the last newline wherever it is
splitAtAnyNewline(text) ==
  LET cutPoint == lastIndexOf(text, NL, MAX_MSG_LENGTH)
  IN IF cutPoint >= 0 THEN cutPoint ELSE MAX_MSG_LENGTH

\* the split of flushText: where accumulated is cut when it is too long
splitAt(text) ==
  LET cutPoint == lastIndexOf(text, NL, MAX_MSG_LENGTH)
  IN IF 2 * cutPoint > MAX_MSG_LENGTH THEN cutPoint ELSE MAX_MSG_LENGTH

dots == str(".", 3)

\* the events of a run, as the renderer receives them
Deltas == {str("&", 1), str("x", 4000), concat(str("x", 2999), str(NL, 1))}
ResultTexts == {<<>>, str("x", 4001)}
TgEvents ==
  [kind : {"text_delta"}, text : Deltas]
    \cup [kind : {"tool_use", "thinking_start", "thinking_done", "error"},
          text : {<<>>}]
    \cup [kind : {"result"}, text : ResultTexts]

\* toolLines rendered by flushTools, each label being the tool name "t"
RECURSIVE joinLines(_, _)
joinLines(piece, n) ==
  IF n = 0 THEN <<>>
  ELSE IF n = 1 THEN str(piece, 1)
  ELSE concat(concat(joinLines(piece, n - 1), str(NL, 1)), str(piece, 1))

toolsHtml(n) ==
  IF n >= 4
    THEN concat(concat(str("<blockquote expandable>", 1),
                       joinLines("<i>t</i>", n)), str("</blockquote>", 1))
    ELSE joinLines("<i>t</i>", n)

toolsRaw(n) == joinLines("t", n)

\* a stack frame of a coroutine: the code position and the arguments in use;
\* after is the answer that made safeEditMessage start its plain retry
F(pc) ==
  [pc |-> pc, final |-> FALSE, mode |-> "none", id |-> 0, text |-> <<>>,
   raw |-> <<>>, hasRaw |-> FALSE, parse |-> "plain", after |-> "none"]

switchModeCall(newMode) == [F("sw0") EXCEPT !.mode = newMode]
flushTextCall(final) == [F("ft0") EXCEPT !.final = final]
flushToolsCall == F("fl0")
sendNewCall(text, parseMode, mode) ==
  [F("sn0") EXCEPT !.text = text, !.parse = parseMode, !.mode = mode]
safeEditMessageCall(messageId, text, rawText, mode) ==
  [F("se0") EXCEPT !.id = messageId, !.text = text, !.raw = rawText,
                   !.hasRaw = TRUE, !.mode = mode]
safeEditMessageNoRaw(messageId, text, mode) ==
  [F("se0") EXCEPT !.id = messageId, !.text = text, !.mode = mode]

\* positions at which a coroutine waits for the platform's answer
WaitLabels == {"seW1", "seW2", "snW", "sfW"}
\* positions that follow a call whose rejection is swallowed by .catch
CatchLabels == {"td3", "tu3", "th1", "fin1", "tmRet"}
\* positions at which the main coroutine rests
RestLabels == {"loop", "done", "rejected"}

\* positions that follow the flush of switchMode, the edit of thinking_done
\* and the final edit: a request issued below them finalises a message
FinalLabels == {"sw1", "sw3", "th1", "fin1"}

\* a request handed to ctx.api, as recorded in the log, with the time at
\* which it is issued; chunk: it carries the part flushText has cut off
Request(c, op, f, parse, text) ==
  [op |-> op, id |-> f.id, text |-> text, parse |-> parse, by |-> c.by,
   mode |-> f.mode, at |-> c.s.now, after |-> f.after,
   final |-> \E i \in 1..Len(c.k) : c.k[i].pc \in FinalLabels,
   chunk |-> \E i \in 1..Len(c.k) : c.k[i].pc = "ft1"]

\* the content shown for a request: HTML entities are decoded
Rendered(text, parse) ==
  IF parse = "HTML"
    THEN [i \in 1..Len(text) |->
            IF text[i].c = "&amp;" THEN [c |-> "&", n |-> text[i].n]
            ELSE text[i]]
    ELSE text

tgInit ==
  [mode |-> "none", messageId |-> 0, accumulated |-> <<>>, lastEditTime |-> 0,
   pendingEdit |-> FALSE, toolLines |-> 0, lastTextMessageId |-> 0,
   hasResult |-> FALSE,
   now |-> StartTime, timerOn |-> TRUE, timerDue |-> StartTime + EDIT_INTERVAL_MS,
   msgs |-> <<>>, log |-> <<>>, evs |-> <<>>, rejects |-> 0,
   main |-> <<F("loop")>>, timers |-> <<>>]

\* c is a running coroutine: the renderer state s, its stack k (top first),
\* whether a rejection is propagating, and who runs it
call(c, callee, retpc) ==
  [c EXCEPT !.k = <<callee, [Head(c.k) EXCEPT !.pc = retpc]>> \o Tail(c.k)]
goto(c, pc) == [c EXCEPT !.k[1].pc = pc]
ret(c) == [c EXCEPT !.k = Tail(c.k)]
issue(c, op, parse, text, waitpc) ==
  [c EXCEPT !.s.log = Append(@, Request(c, op, Head(c.k), parse, text)),
            !.k[1].pc = waitpc]

\* flushText up to its first await (lines 112-135)
flushTextHead(c) ==
  LET s == c.s
      f == Head(c.k)
  IN IF s.accumulated = <<>> THEN ret(c)
     ELSE IF ~f.final /\ s.now - s.lastEditTime < EDIT_INTERVAL_MS
       THEN ret([c EXCEPT !.s.pendingEdit = TRUE])
     ELSE LET c1 == [c EXCEPT !.s.pendingEdit = FALSE,
                              !.s.lastEditTime = s.now]
              text == s.accumulated
          IN IF length(text) > MAX_MSG_LENGTH
               THEN LET chunk == sliceTo(text, splitAt(text))
                    IN call([c1 EXCEPT !.s.accumulated =
                                          sliceFrom(text, splitAt(text))],
                            safeEditMessageCall(s.messageId,
                              markdownToTelegramHtml(chunk), chunk, "text"),
                            "ft1")
               ELSE call(c1,
                         safeEditMessageCall(s.messageId,
                           markdownToTelegramHtml(text), text, "text"),
                         "ftRet")

\* the code after the event loop up to its await (lines 217-238)
finalEdit(c) ==
  LET s == c.s
      last == IF s.mode = "text" /\ s.accumulated # <<>>
                THEN s.messageId ELSE s.lastTextMessageId
      c1 == [c EXCEPT !.s.timerOn = FALSE, !.s.lastTextMessageId = last]
      sep == str(NL, 2)
      display == concat(concat(markdownToTelegramHtml(s.accumulated), sep),
                        formatFooter(s.hasResult))
      rawDisplay == concat(concat(s.accumulated, sep),
                           formatFooterPlain(s.hasResult))
  IN IF last # 0 /\ s.accumulated # <<>>
       THEN call(c1, safeEditMessageCall(last, display, rawDisplay, "footer"),
                 "fin1")
     ELSE IF last = 0 /\ s.hasResult
       THEN call(c1, [F("sf0") EXCEPT !.text = formatFooter(s.hasResult),
                                      !.parse = "HTML", !.mode = "footer"],
                 "fin1")
     ELSE goto(c1, "fin1")

\* run the coroutine until it awaits the platform, rests or ends
RECURSIVE run(_)
run(c) ==
  IF c.k = <<>> THEN c
  ELSE
  LET f == Head(c.k)
      s == c.s
  IN
  IF c.thr
    THEN IF f.pc \in CatchLabels THEN run([c EXCEPT !.thr = FALSE])
         ELSE IF f.pc = "loop"
           THEN [c EXCEPT !.thr = FALSE, !.k = <<F("rejected")>>,
                          !.s.timerOn = FALSE]
         ELSE run(ret(c))
  ELSE
  CASE f.pc \in WaitLabels \cup RestLabels -> c
    \* text_delta (lines 173-179)
    [] f.pc = "td0" ->
         IF s.mode # "text" THEN run(call(c, switchModeCall("text"), "td1"))
                            ELSE run(goto(c, "td2"))
    [] f.pc = "td1" -> run(call(c, sendNewCall(dots, "plain", "text"), "td2"))
    [] f.pc = "td2" ->
         run(call([c EXCEPT !.s.accumulated = concat(@, f.text)],
                  flushTextCall(FALSE), "td3"))
    [] f.pc = "td3" -> run(ret(c))
    \* tool_use (lines 180-187)
    [] f.pc = "tu0" ->
         IF s.mode # "tools" THEN run(call(c, switchModeCall("tools"), "tu1"))
                             ELSE run(goto(c, "tu2"))
    [] f.pc = "tu1" -> run(call(c, sendNewCall(dots, "plain", "tools"), "tu2"))
    [] f.pc = "tu2" ->
         run(call([c EXCEPT !.s.toolLines = @ + 1], flushToolsCall, "tu3"))
    [] f.pc = "tu3" -> run(ret(c))
    \* thinking_start (lines 188-190)
    [] f.pc = "ts0" -> run(call(c, switchModeCall("thinking"), "ts1"))
    [] f.pc = "ts1" ->
         run(call(c, sendNewCall(str("<i>Thinking...</i>", 1), "HTML",
                                 "thinking"), "ts2"))
    [] f.pc = "ts2" -> run(ret(c))
    \* thinking_done (lines 191-196)
    [] f.pc = "th0" ->
         IF s.mode = "thinking"
           THEN run(call(c, safeEditMessageNoRaw(s.messageId,
                              str("<i>Thought for 1.0s</i>", 1), "thinking"),
                         "th1"))
           ELSE run(goto(c, "th1"))
    [] f.pc = "th1" -> run(ret([c EXCEPT !.s.mode = "none"]))
    \* result (lines 197-208)
    [] f.pc = "rs0" ->
         LET c1 == [c EXCEPT !.s.hasResult = TRUE]
         IN IF s.accumulated = <<>> /\ f.text # <<>>
              THEN IF s.mode # "text"
                     THEN run(call(c1, switchModeCall("text"), "rs1"))
                     ELSE run(goto(c1, "rs2"))
              ELSE run(ret(c1))
    [] f.pc = "rs1" -> run(call(c, sendNewCall(dots, "plain", "text"), "rs2"))
    [] f.pc = "rs2" -> run(ret([c EXCEPT !.s.accumulated = f.text]))
    \* error (lines 209-215)
    [] f.pc = "er0" ->
         IF s.mode # "text" THEN run(call(c, switchModeCall("text"), "er1"))
                            ELSE run(goto(c, "er2"))
    [] f.pc = "er1" -> run(call(c, sendNewCall(dots, "plain", "text"), "er2"))
    [] f.pc = "er2" ->
         run(ret([c EXCEPT !.s.accumulated =
                    concat(concat(@, str(NL, 2)), str("[Error: e]", 1))]))
    \* after the loop (lines 217-240)
    [] f.pc = "fin0" -> run(finalEdit(c))
    [] f.pc = "fin1" -> [c EXCEPT !.k = <<F("done")>>]
    \* switchMode (lines 149-160)
    [] f.pc = "sw0" ->
         IF s.mode = "text" /\ s.accumulated # <<>>
           THEN run(call(c, flushTextCall(TRUE), "sw1"))
           ELSE run(goto(c, "sw2"))
    [] f.pc = "sw1" ->
         run(goto([c EXCEPT !.s.lastTextMessageId = s.messageId], "sw2"))
    [] f.pc = "sw2" ->
         IF s.mode = "tools" THEN run(call(c, flushToolsCall, "sw3"))
                             ELSE run(goto(c, "sw3"))
    [] f.pc = "sw3" ->
         run(ret([c EXCEPT !.s.mode = f.mode, !.s.accumulated = <<>>,
                           !.s.toolLines = 0]))
    \* flushTools (lines 139-146)
    [] f.pc = "fl0" ->
         IF s.toolLines = 0 THEN run(ret(c))
         ELSE run(call(c, safeEditMessageCall(s.messageId,
                            toolsHtml(s.toolLines), toolsRaw(s.toolLines),
                            "tools"), "flRet"))
    [] f.pc = "flRet" -> run(ret(c))
    \* flushText (lines 112-136)
    [] f.pc = "ft0" -> run(flushTextHead(c))
    [] f.pc = "ft1" -> run(call(c, sendNewCall(dots, "plain", "text"), "ft2"))
    [] f.pc = "ft2" ->
         run(call(c, safeEditMessageCall(s.messageId,
                       markdownToTelegramHtml(s.accumulated), s.accumulated,
                       "text"), "ftRet"))
    [] f.pc = "ftRet" -> run(ret(c))
    \* safeEditMessage (lines 50-53): the formatted attempt
    [] f.pc = "se0" ->
         LET displayText == IF f.text = <<>> THEN dots ELSE f.text
         IN issue([c EXCEPT !.k[1].text = displayText], "edit", "HTML",
                  displayText, "seW1")
    \* sendNew (lines 97-104)
    [] f.pc = "sn0" -> issue(c, "send", f.parse, f.text, "snW")
    \* the standalone footer (line 237)
    [] f.pc = "sf0" -> issue(c, "send", f.parse, f.text, "sfW")
    \* the editTimer callback (lines 162-164)
    [] f.pc = "tm0" ->
         IF s.pendingEdit /\ s.mode = "text"
           THEN run(call(c, flushTextCall(FALSE), "tmRet"))
           ELSE run(ret(c))
    [] f.pc = "tmRet" -> run(ret(c))

\* the answers the platform can give to the request a coroutine waits for
Outcomes(s, f) ==
  (IF s.rejects < MaxRejects THEN {"rejected"} ELSE {})
    \cup (IF f.pc \in {"seW1", "seW2"}
            THEN LET parse == IF f.pc = "seW1" THEN "HTML" ELSE "plain"
                 IN IF /\ f.id \in 1..Len(s.msgs)
                       /\ Rendered(f.text, parse) =
                            Rendered(s.msgs[f.id].text, s.msgs[f.id].parse)
                      THEN {"not modified"}
                      ELSE {"ok"}
            ELSE {"ok"})

\* the coroutine resumes with the platform's answer o
respond(c, o) ==
  LET f == Head(c.k)
      s == c.s
      c1 == IF o = "rejected" THEN [c EXCEPT !.s.rejects = @ + 1] ELSE c
  IN CASE f.pc = "seW1" ->
            \* safeEditMessage (lines 53-56): any rejection starts the retry
            IF o = "ok"
              THEN run(ret([c1 EXCEPT !.s.msgs[f.id] =
                                        [text |-> f.text, parse |-> "HTML", after |-> f.after]]))
              ELSE LET rawText == IF f.hasRaw THEN f.raw ELSE f.text
                   IN issue([c1 EXCEPT !.k[1].text = rawText, !.k[1].after = o],
                            "edit", "plain",
                            rawText, "seW2")
       [] f.pc = "seW2" ->
            \* safeEditMessage (lines 56-59)
            IF o = "ok"
              THEN run(ret([c1 EXCEPT !.s.msgs[f.id] =
                                        [text |-> f.text, parse |-> "plain", after |-> f.after]]))
            ELSE IF o = "not modified" THEN run(ret(c1))
            ELSE run(ret([c1 EXCEPT !.thr = TRUE]))
       [] f.pc = "snW" ->
            \* sendNew (lines 104-108)
            IF o = "ok"
              THEN run(ret([c1 EXCEPT
                     !.s.msgs = Append(@, [text |-> f.text, parse |-> f.parse, after |-> f.after]),
                     !.s.messageId = Len(s.msgs) + 1,
                     !.s.lastEditTime = 0,
                     !.s.pendingEdit = FALSE]))
              ELSE run(ret([c1 EXCEPT !.thr = TRUE]))
       [] f.pc = "sfW" ->
            IF o = "ok"
              THEN run(ret([c1 EXCEPT
                     !.s.msgs = Append(@, [text |-> f.text, parse |-> f.parse, after |-> f.after])]))
              ELSE run(ret([c1 EXCEPT !.thr = TRUE]))

notTg == <<botVars, rl, sp, ss, tb, ft>>

\* the first frame of the handler of an event
handler(e) ==
  [F(CASE e.kind = "text_delta" -> "td0"
       [] e.kind = "tool_use" -> "tu0"
       [] e.kind = "thinking_start" -> "ts0"
       [] e.kind = "thinking_done" -> "th0"
       [] e.kind = "result" -> "rs0"
       [] e.kind = "error" -> "er0") EXCEPT !.text = e.text]

\* the event sequences a run can produce: Error is the last event, only Error
\* can follow Completion, and a thinking block is closed before the next block
CanFollow(evs, e) ==
  \/ evs = <<>> /\ e.kind # "thinking_done"
  \/ /\ evs # <<>>
     /\ LET last == evs[Len(evs)].kind
        IN /\ last # "error"
           /\ last = "result" => e.kind = "error"
           /\ last = "thinking_start" => e.kind \in {"thinking_done", "error"}
           /\ e.kind = "thinking_done" => last = "thinking_start"

\* the for await loop takes the next event of the run
TgEvent(e) ==
  /\ Head(tg.main).pc = "loop"
  /\ Len(tg.evs) < MaxEvents
  /\ CanFollow(tg.evs, e)
  /\ LET c == run([s |-> [tg EXCEPT !.evs = Append(@, e)],
                   k |-> <<handler(e)>> \o tg.main, thr |-> FALSE,
                   by |-> "main"])
     IN tg' = [c.s EXCEPT !.main = c.k]
  /\ UNCHANGED notTg

\* the event stream ends
TgEnd ==
  /\ Head(tg.main).pc = "loop"
  /\ LET c == run([s |-> tg, k |-> <<F("fin0")>>, thr |-> FALSE, by |-> "main"])
     IN tg' = [c.s EXCEPT !.main = c.k]
  /\ UNCHANGED notTg

\* the platform answers the request of the main coroutine
TgAnswerMain(o) ==
  /\ Head(tg.main).pc \in WaitLabels
  /\ o \in Outcomes(tg, Head(tg.main))
  /\ LET c == respond([s |-> tg, k |-> tg.main, thr |-> FALSE, by |-> "main"], o)
     IN tg' = [c.s EXCEPT !.main = c.k]
  /\ UNCHANGED notTg

\* the platform answers the request of the i-th pending timer callback
TgAnswerTimer(i, o) ==
  /\ i \in 1..Len(tg.timers)
  /\ o \in Outcomes(tg, Head(tg.timers[i]))
  /\ LET c == respond([s |-> tg, k |-> tg.timers[i], thr |-> FALSE,
                       by |-> "timer"], o)
     IN tg' = [c.s EXCEPT !.timers =
                 IF c.k = <<>>
                   THEN SubSeq(@, 1, i - 1) \o SubSeq(@, i + 1, Len(@))
                   ELSE [@ EXCEPT ![i] = c.k]]
  /\ UNCHANGED notTg

\* the editTimer interval elapses and its callback runs (lines 162-164)
TgTimer ==
  /\ tg.timerOn
  /\ tg.now >= tg.timerDue
  /\ LET c == run([s |-> [tg EXCEPT !.timerDue = @ + EDIT_INTERVAL_MS],
                   k |-> <<F("tm0")>>, thr |-> FALSE, by |-> "timer"])
     IN tg' = [c.s EXCEPT !.timers = IF c.k = <<>> THEN @ ELSE Append(@, c.k)]
  /\ UNCHANGED notTg

\* time passes; a due timer callback runs before more time passes
TgTick ==
  /\ tg.now < MaxTime
  /\ ~(tg.timerOn /\ tg.now >= tg.timerDue)
  /\ Head(tg.main).pc \notin {"done", "rejected"} \/ tg.timers # <<>>
  /\ tg' = [tg EXCEPT !.now = @ + ClockStep]
  /\ UNCHANGED notTg

AnswerKinds == {"ok", "rejected", "not modified"}

RenderNext ==
  \/ \E e \in TgEvents : TgEvent(e)
  \/ TgEnd
  \/ \E o \in AnswerKinds : TgAnswerMain(o)
  \/ \E i \in 1..MaxTicks, o \in AnswerKinds : TgAnswerTimer(i, o)
  \/ TgTimer
  \/ TgTick

\* ---- session section ----
\* The resume tokens of a user: state.sessions, read at the head of every
\* iteration of runAndDrain and written when streamToTelegram has returned
\* with the session id of a result event; /new deletes the entry of the
\* effective cwd.  A loop is followed from handlePrompt to its return; the
\* registry is reduced to whether the cwd's key holds an entry.
MaxSsPrompts == 3
MaxSsNew == 1
NoSession == 0

ssInit ==
  [sessions |-> [c \in Cwds |-> NoSession],
   entry    |-> [c \in Cwds |-> FALSE],
   queued   |-> [c \in Cwds |-> 0],
   loops    |-> <<>>,
   prompts  |-> 0,
   nextId   |-> 1,
   news     |-> 0,
   ended    |-> [c \in Cwds |-> NoSession],
   fresh    |-> [c \in Cwds |-> FALSE],
   log      |-> <<>>]

notSs == <<botVars, rl, sp, tg, tb, ft>>

\* one iteration of the while loop of runAndDrain up to the first await:
\* state.sessions.get(cwd), then runClaude, whose busy guard ends the run
\* with an error and no result when the key holds an entry and which
\* otherwise registers its handle and spawns `claude ... -r sessionId`
iterate(s, i) ==
  LET c == s.loops[i].cwd
      sessionId == s.sessions[c]
  IN IF s.entry[c]
       THEN [s EXCEPT !.loops[i].pc = "final", !.loops[i].sessionId = sessionId,
                      !.loops[i].result = NoSession]
       ELSE [s EXCEPT !.loops[i].pc = "run", !.loops[i].sessionId = sessionId,
                      !.loops[i].result = NoSession,
                      !.entry[c] = TRUE,
                      !.ended[c] = NoSession,
                      !.fresh[c] = FALSE,
                      !.log = Append(@, [cwd |-> c, token |-> sessionId,
                                         expect |-> s.ended[c],
                                         fresh |-> s.fresh[c]])]

\* handlePrompt for a text message with effective cwd c: queued when the
\* cwd has an active process, else runAndDrain starts in the same turn
SsHandlePrompt(c) ==
  /\ ss.prompts < MaxSsPrompts
  /\ LET s1 == [ss EXCEPT !.prompts = @ + 1]
         i == Len(ss.loops) + 1
     IN ss' = IF ss.entry[c]
                THEN [s1 EXCEPT !.queued[c] = @ + 1]
                ELSE iterate([s1 EXCEPT !.loops =
                                Append(@, [cwd |-> c, pc |-> "start",
                                           sessionId |-> NoSession,
                                           result |-> NoSession])], i)
  /\ UNCHANGED notSs

\* the renderer consumes the result event of the run: result.sessionId
SsResult(i) ==
  /\ ss.loops[i].pc = "run"
  /\ ss.loops[i].result = NoSession
  /\ ss' = [ss EXCEPT !.loops[i].result = ss.nextId, !.nextId = @ + 1]
  /\ UNCHANGED notSs

\* the process of the run exits and the finally block of runClaude removes
\* the registry entry; the renderer goes on to its final edit
SsExit(i) ==
  LET c == ss.loops[i].cwd
  IN /\ ss.loops[i].pc = "run"
     /\ ss' = [ss EXCEPT !.loops[i].pc = "final",
                         !.entry[c] = FALSE,
                         !.ended[c] = IF ss.loops[i].result # NoSession
                                          /\ ~ss.fresh[c]
                                        THEN ss.loops[i].result ELSE @]
     /\ UNCHANGED notSs

\* variant that stores whatever the renderer returned
storesAlways(result) == TRUE

\* if (result.sessionId): only the session id of a result event is stored
storesSession(result) == result # NoSession

\* streamToTelegram returned: result.sessionId is stored, then the next
\* entry of the cwd is taken off the queue or the loop is left
SsReturn(i) ==
  LET c == ss.loops[i].cwd
      s1 == IF storesSession(ss.loops[i].result)
              THEN [ss EXCEPT !.sessions[c] = ss.loops[i].result]
              ELSE ss
  IN /\ ss.loops[i].pc = "final"
     /\ ss' = IF ss.queued[c] > 0
                THEN [s1 EXCEPT !.queued[c] = @ - 1, !.loops[i].pc = "reply"]
                ELSE [s1 EXCEPT !.loops[i].pc = "done"]
     /\ UNCHANGED notSs

\* the "Processing queued message" reply returned: next iteration
SsDrainNext(i) ==
  /\ ss.loops[i].pc = "reply"
  /\ ss' = iterate(ss, i)
  /\ UNCHANGED notSs

\* /new with effective cwd c: state.sessions.delete(cwd), state.queue = []
SsNew(c) ==
  /\ ss.news < MaxSsNew
  /\ ss' = [ss EXCEPT !.news = @ + 1,
                      !.sessions[c] = NoSession,
                      !.queued = [d \in Cwds |-> 0],
                      !.ended[c] = NoSession,
                      !.fresh[c] = TRUE]
  /\ UNCHANGED notSs

SessionNext ==
  \/ \E c \in Cwds : SsHandlePrompt(c)
  \/ \E i \in 1..Len(ss.loops) : SsResult(i)
  \/ \E i \in 1..Len(ss.loops) : SsExit(i)
  \/ \E i \in 1..Len(ss.loops) : SsReturn(i)
  \/ \E i \in 1..Len(ss.loops) : SsDrainNext(i)
  \/ \E c \in Cwds : SsNew(c)

\* ---- content block section ----
\* createStreamParser fed one stdout line at a time.  A line is a record of
\* the stream-json protocol or a line that JSON.parse rejects; the process
\* opens a content block only after it closed the one before.  The text of
\* a tool input is a sequence of tokens: "{", "}", the key "K" (standing for
\* "file_path":) and the string values "a" and "b".
MaxTbLines == 6
MaxTbTicks == 1
ToolNames == {"Read", "TodoWrite"}
Fragments == {<<"{", "K">>, <<"a", "}">>, <<"b", "}">>, <<"{", "}">>}

\* variant that puts the new fragment in front
prependFragment(json, partial) == partial \o json

\* toolInputJson += delta.partial_json
appendFragment(json, partial) == json \o partial

\* JSON.parse(toolInputJson) for the input object of a tool call: threw is
\* the SyntaxError, and the value "" stands for a key that is absent
JSONparseInput(t) ==
  IF t = <<"{", "}">> THEN [threw |-> FALSE, value |-> [file_path |-> ""]]
  ELSE IF Len(t) = 4 /\ t[1] = "{" /\ t[2] = "K" /\ t[3] \in {"a", "b"}
            /\ t[4] = "}"
         THEN [threw |-> FALSE, value |-> [file_path |-> t[3]]]
         ELSE [threw |-> TRUE, value |-> [file_path |-> ""]]

\* let input = {}; try { input = JSON.parse(toolInputJson) } catch {}
parseToolInput(t) ==
  IF JSONparseInput(t).threw THEN [file_path |-> ""]
  ELSE JSONparseInput(t).value

\* formatToolInput(name, input)
formatToolInput(name, input) ==
  IF name = "Read" THEN input.file_path ELSE ""

\* the closure variables of createStreamParser and the events yielded
tbParserInit ==
  [currentBlockType |-> "null", currentToolName |-> "", toolInputJson |-> <<>>,
   thinkingStartTime |-> 0, events |-> <<>>]

\* variant in which the stop of any block but a tool_use block reports the
\* end of thinking
stopOfOtherBlock(ps) == ps.currentBlockType # "tool_use"

\* else if (currentBlockType === "thinking") at content_block_stop
stopOfThinking(ps) == ps.currentBlockType = "thinking"

\* the lines the process can write while the stream has the given block open
TbLines(open) ==
  {[type |-> "malformed"]}
  \cup (IF open = "null"
          THEN {[type |-> "content_block_start", block |-> "text"],
                [type |-> "content_block_start", block |-> "thinking"]}
               \cup {[type |-> "content_block_start", block |-> "tool_use",
                      name |-> n] : n \in ToolNames}
          ELSE {[type |-> "content_block_stop"],
                [type |-> "content_block_delta", delta |-> "text_delta"]}
               \cup {[type |-> "content_block_delta",
                      delta |-> "input_json_delta", partial_json |-> f]
                       : f \in Fragments})

\* the body of the for loop of parseStreamLines for one line, the tool
\* input kept as text
parseRecord(ps, line, now) ==
  CASE line.type = "malformed" -> ps
    [] line.type = "content_block_start" ->
         (CASE line.block = "text" -> [ps EXCEPT !.currentBlockType = "text"]
            [] line.block = "tool_use" ->
                 [ps EXCEPT !.currentBlockType = "tool_use",
                            !.currentToolName = line.name,
                            !.toolInputJson = <<>>]
            [] line.block = "thinking" ->
                 [ps EXCEPT !.currentBlockType = "thinking",
                            !.thinkingStartTime = now,
                            !.events = Append(@, [kind |-> "thinking_start"])])
    [] line.type = "content_block_delta" ->
         IF line.delta = "text_delta" /\ ps.currentBlockType = "text"
           THEN [ps EXCEPT !.events = Append(@, [kind |-> "text_delta"])]
         ELSE IF line.delta = "input_json_delta"
                 /\ ps.currentBlockType = "tool_use"
           THEN [ps EXCEPT !.toolInputJson =
                              appendFragment(@, line.partial_json)]
           ELSE ps
    [] line.type = "content_block_stop" ->
         [ps EXCEPT
            !.currentBlockType = "null",
            !.events =
               CASE ps.currentBlockType = "tool_use" ->
                      Append(@, [kind |-> "tool_use",
                                 name |-> ps.currentToolName,
                                 input |-> formatToolInput(ps.currentToolName,
                                             parseToolInput(ps.toolInputJson))])
                 [] stopOfThinking(ps) ->
                      Append(@, [kind |-> "thinking_done",
                                 durationMs |-> now - ps.thinkingStartTime])
                 [] OTHER -> @]

\* open: the block the process has open; lines: what it wrote so far
\* now: Date.now(); openedAt: when the process opened its current block;
\* spans: how long each thinking block it closed was open
tbInit ==
  [ps |-> tbParserInit, open |-> "null", lines |-> <<>>, now |-> 0,
   openedAt |-> 0, spans |-> <<>>]

notTb == <<botVars, rl, sp, tg, ss, ft>>

\* the process writes a line and the read loop passes it to the parser
TbLine(line) ==
  /\ Len(tb.lines) < MaxTbLines
  /\ line \in TbLines(tb.open)
  /\ tb' = [ps |-> parseRecord(tb.ps, line, tb.now),
            open |-> CASE line.type = "content_block_start" -> line.block
                       [] line.type = "content_block_stop" -> "null"
                       [] OTHER -> tb.open,
            lines |-> Append(tb.lines, line),
            now |-> tb.now,
            openedAt |-> IF line.type = "content_block_start"
                           THEN tb.now ELSE tb.openedAt,
            spans |-> IF line.type = "content_block_stop"
                         /\ tb.open = "thinking"
                        THEN Append(tb.spans, tb.now - tb.openedAt)
                        ELSE tb.spans]
  /\ UNCHANGED notTb

\* time passes between two lines
TbTick ==
  /\ tb.now < MaxTbTicks
  /\ tb' = [tb EXCEPT !.now = @ + 1]
  /\ UNCHANGED notTb

BlockNext ==
  \/ \E open \in {"null", "text", "thinking", "tool_use"} :
       \E line \in TbLines(open) : TbLine(line)
  \/ TbTick

\* ---- split section ----
\* The split of flushText on its own: accumulated holds a text longer than
\* MAX_MSG_LENGTH and the call cuts it into the chunk that stays in the
\* current message and the rest.  The texts are runs of "x" with up to two
\* newlines at the places that decide the cut.
HeadLens == {0, 1, 5, 2000, 2001, 3999, 4000}
MidLens == {0, 1, 1999, 2000, 2001}
TailLens == {0, 4001}
SplitTexts ==
  {t \in {concat(concat(concat(concat(str("x", a), str(NL, p)), str("x", b)),
                        str(NL, q)), str("x", c))
            : a \in HeadLens, p \in {0, 1}, b \in MidLens, q \in {0, 1},
              c \in TailLens}
     : length(t) > MAX_MSG_LENGTH}

ftInit == [pc |-> "idle", text |-> <<>>, cut |-> 0, chunk |-> <<>>,
           accumulated |-> <<>>]

notFt == <<botVars, rl, sp, tg, ss, tb>>

\* flushText with accumulated = text, from the length test to the first
\* await: the cut, the chunk and what stays in accumulated
FtSplit(text) ==
  /\ length(text) > MAX_MSG_LENGTH
  /\ ft' = [pc |-> "split", text |-> text, cut |-> splitAt(text),
            chunk |-> sliceTo(text, splitAt(text)),
            accumulated |-> sliceFrom(text, splitAt(text))]
  /\ UNCHANGED notFt

SplitNext == \E text \in SplitTexts : FtSplit(text)

\* ---- initial state ----
Init ==
  /\ userProcesses = [k \in Keys |-> NoRun]
  /\ runPc = [r \in Runs |-> "idle"]
  /\ runKey = [r \in Runs |-> processKey(UserId, "w1")]
  /\ runPrompt = [r \in Runs |-> <<>>]
  /\ aborted = [r \in Runs |-> FALSE]
  /\ procLive = [r \in Runs |-> FALSE]
  /\ resolveCount = [r \in Runs |-> 0]
  /\ runEvents = [r \in Runs |-> <<>>]
  /\ waitOrder = <<>>
  /\ waitsOn = [r \in Runs |-> NoRun]
  /\ nextRun = 1
  /\ hp = [p \in Payloads |-> "none"]
  /\ loopCwd = [p \in Payloads |-> "w1"]
  /\ loopPrompt = [p \in Payloads |-> <<>>]
  /\ loopRun = [p \in Payloads |-> NoRun]
  /\ queue = <<>>
  /\ queueStatusMessageId = 0
  /\ pendingCleanup = 0
  /\ activeCwd = "w1"
  /\ submitted = 0
  /\ cmds = 0
  /\ spawnLog = <<>>
  /\ discarded = {}
  /\ stopPending = {}
  /\ forceQueued = {}
  /\ wtExists = FALSE
  /\ rl = rlInit
  /\ tg = tgInit
  /\ sp = spInit
  /\ ss = ssInit
  /\ tb = tbInit
  /\ ft = ftInit

\* ----------------------------------------------------------------- bot.ts
QueuedMessage(p, cwd) == [prompt |-> p, targetCwd |-> cwd]

\* payloads handlePrompt pushed on the queue
enqueued == {p \in Payloads : hp[p] \in {"create", "queued"}}

QueuePayloads(q) == {q[i].prompt : i \in 1..Len(q)}

\* cleanupQueueStatus called by a command handler: with a stored id the
\* handler awaits deleteMessage and clears the id when the call returns
CleanupStarts == IF queueStatusMessageId # 0 THEN 1 ELSE 0

\* handlePrompt(ctx, prompt) for the next text message: queue it when the
\* effective cwd has an active process, otherwise enter runAndDrain, whose
\* first runClaude call happens in the same turn.
HandlePrompt(p) ==
  /\ p = submitted + 1
  /\ submitted' = p
  /\ IF hasActiveProcess(activeCwd)
       THEN /\ queue' = Append(queue, QueuedMessage(p, activeCwd))
            /\ hp' = [hp EXCEPT ![p] =
                        IF queueStatusMessageId # 0 THEN "queued" ELSE "create"]
            /\ loopCwd' = [loopCwd EXCEPT ![p] = activeCwd]
            /\ UNCHANGED <<userProcesses, runVars, loopPrompt, loopRun,
                           spawnLog, forceQueued>>
       ELSE /\ StartRun(p, activeCwd, <<p>>)
            /\ UNCHANGED queue
  /\ UNCHANGED <<queueStatusMessageId, pendingCleanup, activeCwd, cmds,
                 discarded, stopPending, forceQueued, wtExists>>
  /\ UNCHANGED auxVars

\* sendOrUpdateQueueStatus: ctx.reply returned, the new message id is stored
QueueStatusCreated(p) ==
  /\ hp[p] = "create"
  /\ hp' = [hp EXCEPT ![p] = "queued"]
  /\ queueStatusMessageId' = p
  /\ UNCHANGED <<userProcesses, runVars, loopCwd, loopPrompt, loopRun, queue,
                 pendingCleanup, activeCwd, submitted, cmds, histVars,
                 wtExists>>
  /\ UNCHANGED auxVars

\* variant that takes every entry of the cwd off the queue at once
dequeueEvery(q, cwd) == {i \in 1..Len(q) : q[i].targetCwd = cwd}

\* the entries runAndDrain takes off the queue after a run: the first one
\* whose targetCwd is the loop's cwd
dequeueIdx(q, cwd) ==
  LET idx == findIndex(q, cwd) IN IF idx = 0 THEN {} ELSE {idx}

RECURSIVE RemoveIdx(_, _, _)
RemoveIdx(q, idxs, i) ==
  IF i > Len(q) THEN <<>>
  ELSE IF i \in idxs THEN RemoveIdx(q, idxs, i + 1)
       ELSE <<q[i]>> \o RemoveIdx(q, idxs, i + 1)

\* prompts of the entries at the given indices, in queue order
RECURSIVE PromptsAt(_, _, _)
PromptsAt(q, idxs, i) ==
  IF i > Len(q) THEN <<>>
  ELSE IF i \in idxs THEN <<q[i].prompt>> \o PromptsAt(q, idxs, i + 1)
       ELSE PromptsAt(q, idxs, i + 1)

\* runAndDrain after streamToTelegram returned or threw: take the next
\* entry of this cwd off the queue, or leave the loop when there is none
LoopDequeue(l) ==
  LET idxs == dequeueIdx(queue, loopCwd[l])
      q2 == RemoveIdx(queue, idxs, 1)
  IN /\ hp[l] = "final"
     /\ IF idxs = {}
          THEN /\ hp' = [hp EXCEPT ![l] = "done"]
               /\ UNCHANGED <<queue, loopPrompt>>
          ELSE /\ queue' = q2
               /\ loopPrompt' = [loopPrompt EXCEPT ![l] = PromptsAt(queue, idxs, 1)]
               /\ hp' = [hp EXCEPT ![l] =
                           IF q2 = <<>> /\ queueStatusMessageId # 0
                             THEN "cleanup" ELSE "reply"]
     /\ UNCHANGED <<userProcesses, runVars, loopCwd, loopRun,
                    queueStatusMessageId, pendingCleanup, activeCwd,
                    submitted, cmds, histVars, wtExists>>
     /\ UNCHANGED auxVars

\* cleanupQueueStatus inside runAndDrain: deleteMessage returned
LoopCleanup(l) ==
  /\ hp[l] = "cleanup"
  /\ hp' = [hp EXCEPT ![l] = "reply"]
  /\ queueStatusMessageId' = 0
  /\ UNCHANGED <<userProcesses, runVars, loopCwd, loopPrompt, loopRun, queue,
                 pendingCleanup, activeCwd, submitted, cmds, histVars, wtExists>>
  /\ UNCHANGED auxVars

\* the "Processing queued message" reply returned: next iteration of the
\* while loop, which calls runClaude with the dequeued prompt
LoopRun(l) ==
  /\ hp[l] = "reply"
  /\ StartRun(l, loopCwd[l], loopPrompt[l])
  /\ UNCHANGED <<queue, queueStatusMessageId, pendingCleanup, activeCwd,
                 submitted, cmds, discarded, stopPending,
                    forceQueued, wtExists>>
  /\ UNCHANGED auxVars

\* a command handler's cleanupQueueStatus: deleteMessage returned
CleanupDone ==
  /\ pendingCleanup > 0
  /\ pendingCleanup' = pendingCleanup - 1
  /\ queueStatusMessageId' = 0
  /\ UNCHANGED <<userProcesses, runVars, loopVars, queue, activeCwd,
                 submitted, cmds, histVars, wtExists>>
  /\ UNCHANGED auxVars

\* payloads handlePrompt pushed on the queue that no spawned process has
\* received so far: still queued, or held by a drain loop that took them off
pendingPayloads ==
  enqueued \ UNION {Range(runPrompt[r]) : r \in Range(spawnLog)}

\* /stop: stopClaude(userId), state.queue = [], cleanupQueueStatus
Stop ==
  /\ cmds < MaxCmds
  /\ cmds' = cmds + 1
  /\ aborted' = stopClaudeAll
  /\ queue' = <<>>
  /\ discarded' = discarded \cup QueuePayloads(queue)
  /\ stopPending' = stopPending \cup pendingPayloads
  /\ pendingCleanup' = pendingCleanup + CleanupStarts
  /\ UNCHANGED <<userProcesses, runPc, runKey, runPrompt, procLive,
                 resolveCount, runEvents, waitOrder, waitsOn, nextRun,
                 loopVars, queueStatusMessageId, activeCwd, submitted,
                 spawnLog, forceQueued, wtExists>>
  /\ UNCHANGED auxVars

\* the Force Send button of the queue status message: stopClaude(userId)
ForceSend ==
  /\ cmds < MaxCmds
  /\ queueStatusMessageId # 0
  /\ cmds' = cmds + 1
  /\ aborted' = stopClaudeAll
  /\ forceQueued' = forceQueued \cup
       {queue[i].prompt : i \in {j \in 1..Len(queue) :
                                   hasActiveProcess(queue[j].targetCwd)}}
  /\ UNCHANGED <<userProcesses, runPc, runKey, runPrompt, procLive,
                 resolveCount, runEvents, waitOrder, waitsOn, nextRun,
                 loopVars, queue, queueStatusMessageId, pendingCleanup,
                 activeCwd, submitted, spawnLog, discarded, stopPending, wtExists>>
  /\ UNCHANGED auxVars

\* the Clear Queue button, and /new (whose session reset is not part of
\* this state): state.queue = [], cleanupQueueStatus
ClearQueue ==
  /\ cmds < MaxCmds
  /\ cmds' = cmds + 1
  /\ queue' = <<>>
  /\ discarded' = discarded \cup QueuePayloads(queue)
  /\ UNCHANGED stopPending
  /\ pendingCleanup' = pendingCleanup + CleanupStarts
  /\ UNCHANGED <<userProcesses, runVars, loopVars, queueStatusMessageId,
                 activeCwd, submitted, spawnLog, forceQueued, wtExists>>
  /\ UNCHANGED auxVars

\* the project:<name> callback: the project directory becomes the cwd, the
\* worktrees and the queue are dropped
ProjectSwitch ==
  /\ cmds < MaxCmds
  /\ cmds' = cmds + 1
  /\ activeCwd' = "w1"
  /\ wtExists' = FALSE
  /\ queue' = <<>>
  /\ discarded' = discarded \cup QueuePayloads(queue)
  /\ UNCHANGED stopPending
  /\ pendingCleanup' = pendingCleanup + CleanupStarts
  /\ UNCHANGED <<userProcesses, runVars, loopVars, queueStatusMessageId,
                 submitted, spawnLog, forceQueued>>
  /\ UNCHANGED auxVars

\* /wt new <name>: the worktree is created and becomes the active one
WtNew ==
  /\ ~wtExists
  /\ wtExists' = TRUE
  /\ activeCwd' = "w2"
  /\ UNCHANGED <<cmds, userProcesses, runVars, loopVars, queue,
                 queueStatusMessageId, pendingCleanup, submitted, histVars>>
  /\ UNCHANGED auxVars

\* /wt switch <name> or /wt switch main
WtSwitch(cwd) ==
  /\ cwd # activeCwd
  /\ cwd = "w2" => wtExists
  /\ activeCwd' = cwd
  /\ UNCHANGED <<cmds, userProcesses, runVars, loopVars, queue,
                 queueStatusMessageId, pendingCleanup, submitted, histVars, wtExists>>
  /\ UNCHANGED auxVars

\* /wt rm <name>: stopClaude(userId, wt.path), the queue loses the entries
\* targeted at the worktree
WtRm ==
  /\ wtExists
  /\ aborted' = stopClaudeKey(processKey(UserId, "w2"))
  /\ queue' = filterOut(queue, "w2")
  /\ discarded' = discarded \cup (QueuePayloads(queue) \ QueuePayloads(queue'))
  /\ UNCHANGED stopPending
  /\ wtExists' = FALSE
  /\ activeCwd' = "w1"
  /\ UNCHANGED <<cmds, userProcesses, runPc, runKey, runPrompt, procLive,
                 resolveCount, runEvents, waitOrder, waitsOn, nextRun,
                 loopVars, queueStatusMessageId, pendingCleanup, submitted,
                 spawnLog, forceQueued>>
  /\ UNCHANGED auxVars

\* every step but the arrival of a message and the /wt commands
Step ==
  \/ \E p \in Payloads : QueueStatusCreated(p)
  \/ \E l \in Payloads : LoopDequeue(l)
  \/ \E l \in Payloads : LoopCleanup(l)
  \/ \E l \in Payloads : LoopRun(l)
  \/ \E r \in Runs : Timeout(r)
  \/ \E r \in Runs : ProcExit(r)
  \/ \E r \in Runs : ReadEnd(r)
  \/ \E r \in Runs : ReadFail(r)
  \/ \E r \in Runs : RendererThrows(r)
  \/ \E r \in Runs : Finally(r)
  \/ CleanupDone
  \/ Stop
  \/ ForceSend
  \/ ClearQueue
  \/ ProjectSwitch

\* the /wt commands
WtStep ==
  \/ WtNew
  \/ \E c \in Cwds : WtSwitch(c)
  \/ WtRm

Next ==
  \/ \E p \in 1..MaxPayloads : HandlePrompt(p)
  \/ Step
  \/ WtStep

Spec == Init /\ [][Next]_vars

\* the user stays in one working directory and sends up to MaxDeepPayloads
\* messages
DeepNext ==
  \/ \E p \in Payloads : HandlePrompt(p)
  \/ Step

DeepSpec == Init /\ [][DeepNext]_vars

TypeOK ==
  /\ userProcesses \in [Keys -> Runs \cup {NoRun}]
  /\ nextRun \in 1..(MaxDeepPayloads + 1)
  /\ submitted \in 0..MaxDeepPayloads
  /\ cmds \in 0..MaxCmds
  /\ Len(queue) <= MaxDeepPayloads

\* ------------------------------------------------------------ properties
\* runs for which a process was spawned
SpawnedRuns == Range(spawnLog)

\* live processes of a key
LiveProcs(k) == {r \in Runs : procLive[r] /\ runKey[r] = k}

\* payloads that were part of the prompt of a spawned process
PassedPayloads == UNION {Range(runPrompt[r]) : r \in SpawnedRuns}

\* no handler is between two of its steps
Quiescent ==
  /\ \A p \in Payloads : hp[p] \in {"none", "queued", "done"}
  /\ pendingCleanup = 0

\* C1: at every instant every key has at most one live process spawned by
\* runClaude.
C1_AtMostOneLiveProcess ==
  \A k \in Keys : Cardinality(LiveProcs(k)) <= 1

\* all queue indices whose entry targets the cwd
AllIdx(q, cwd) == {i \in 1..Len(q) : q[i].targetCwd = cwd}

C3_NoInputDropped ==
  Quiescent => (enqueued \ discarded) \subseteq PassedPayloads

\* --------------------------------------------------------------- fairness
\* What the scheduling guarantees of a run: the run timer fires while the
\* read loop is still running, an aborted process exits, and the generator
\* takes its next step when the await it is suspended at has settled.
RunFairness ==
  /\ WF_vars(\E r \in Runs : Timeout(r))
  /\ WF_vars(\E r \in Runs : aborted[r] /\ ProcExit(r))
  /\ WF_vars(\E r \in Runs : ReadEnd(r))
  /\ WF_vars(\E r \in Runs : Finally(r))

FairSpec == Spec /\ RunFairness

\* the run's entry is the one stored under its key
Registered(r) == userProcesses[runKey[r]] = r

TearingDown(r) == aborted[r] /\ runPc[r] \in {"reading", "finally"}

\* C6: while a cancelled run of a key has not fully torn down, no process
\* is spawned for that key.
C6_NoSpawnBeforeTeardown ==
  [][\A r \in Runs :
       (TearingDown(r) /\ runPc'[r] \in {"reading", "finally"})
         => \A i \in (Len(spawnLog) + 1)..Len(spawnLog') :
              runKey'[spawnLog'[i]] # runKey[r]]_vars

\* C7: the entries that were queued when Force Send cancelled the run are
\* passed to a process once the handlers have finished, unless a later
\* explicit discard removed them.
C7_ForceSendDrains ==
  Quiescent => (forceQueued \ discarded) \subseteq PassedPayloads

\* position of the run that was given payload p in the spawn log, 0 if none
SpawnIdx(p) ==
  LET idx == {i \in 1..Len(spawnLog) : p \in Range(runPrompt[spawnLog[i]])}
  IN IF idx = {} THEN 0 ELSE CHOOSE i \in idx : \A j \in idx : i <= j

\* C8: of two payloads submitted to the same key, the later one is passed
\* to a process only if the earlier one has been passed to a process no
\* later, unless the earlier one was discarded.
C8_DrainFifo ==
  \A p, q \in Payloads :
    (/\ p < q
     /\ q <= submitted
     /\ loopCwd[p] = loopCwd[q]
     /\ p \notin discarded
     /\ SpawnIdx(q) # 0)
      => (SpawnIdx(p) # 0 /\ SpawnIdx(p) <= SpawnIdx(q))

\* C9: a drain loop takes an entry off the queue only when the registry
\* holds no live handle for the loop's key.
C9_DequeueOnlyWhenFree ==
  [][\A l \in Payloads :
       (hp[l] = "final" /\ hp'[l] \in {"cleanup", "reply"})
         => ~hasActiveProcess(loopCwd[l])]_vars

\* C10: a runClaude call for a key with a live handle yields the single
\* "already running" Error event and nothing else, spawns nothing and
\* leaves the registry as it is.
C10_BusyRejected ==
  [][\A r \in Runs :
       /\ (runPc[r] = "idle" /\ runPc'[r] # "idle"
             /\ userProcesses[runKey'[r]] # NoRun
             /\ ~aborted[userProcesses[runKey'[r]]])
            => /\ runPc'[r] = "rejected"
               /\ runEvents'[r] = <<"busy">>
               /\ spawnLog' = spawnLog
               /\ procLive' = procLive
               /\ userProcesses' = userProcesses
               /\ aborted' = aborted
       /\ runPc[r] = "rejected"
            => /\ runPc'[r] = "rejected"
               /\ runEvents'[r] = runEvents[r]
               /\ ~procLive'[r]]_vars

C10_Witness ==
  \E r \in Runs : runPc[r] = "rejected" /\ runEvents[r] = <<"busy">>

ForceSendStep ==
  /\ cmds' # cmds
  /\ queueStatusMessageId # 0
  /\ pendingCleanup' = pendingCleanup

\* C12: a Force Send cancels the run in flight on one key only: the runs
\* it aborts all belong to the same key.
C12_ForceSendOneKey ==
  [][ForceSendStep =>
       \A r, x \in Runs :
         (~aborted[r] /\ aborted'[r] /\ ~aborted[x] /\ aborted'[x])
           => runKey[r] = runKey[x]]_vars

\* a single run from spawn to the end of its finally block
RunSpec == Init /\ [][RunNext]_vars

\* the last Error event the run has yielded
rlLabels == {rl.events[i].label : i \in 1..Len(rl.events)}

\* the run has yielded all its events
rlEnded == rl.pc \in {"tearing", "closed"}

\* C13: a run ended by the run timer has yielded the Error event labelled
\* as a timeout and not the one labelled as stopped; a run ended by a user
\* stop has yielded the one labelled as stopped and not the timeout one.
C13_CancelLabels ==
  rlEnded =>
    /\ rl.cause = "timer" => ("timeout" \in rlLabels /\ "stopped" \notin rlLabels)
    /\ rl.cause = "stop" => ("stopped" \in rlLabels /\ "timeout" \notin rlLabels)

\* C14: the Error event that carries the stderr text or the exit code has
\* been yielded exactly when the process ended by itself with a non-zero
\* code and the run was neither cancelled nor timed out.
C14_FailureReported ==
  rlEnded =>
    ("failure" \in rlLabels
       <=> (rl.proc = "exited" /\ rl.exitCode # 0 /\ rl.cause = "none"))

\* the read loop of one run over what its process writes
ParserSpec == Init /\ [][ParserNext]_vars

\* the events of a stream that is read as a single chunk
OneChunk(stream) ==
  readDone(readChunk([buffer |-> <<>>, ps |-> parserInit], stream)).ps.events

\* C15: whatever chunks the stream was read in, the events yielded when the
\* read loop has ended are those of the stream read as one chunk.
C15_ChunkingInvariant ==
  sp.pc = "done" => sp.st.ps.events = OneChunk(sp.written)

\* a stream whose line was split by a chunk boundary and whose last line
\* has no newline has been read to its end
C15_Witness ==
  /\ sp.pc = "done"
  /\ sp.st.ps.events # <<>>
  /\ sp.midLine
  /\ sp.st.buffer # <<>>
  /\ sp.written[Len(sp.written)] # NL
  /\ Len(split(sp.written)) >= 2

\* the line is not empty and is not valid JSON
Malformed(line) == trim(line) # <<>> /\ JSONparse(trim(line)) = "SyntaxError"

\* C16: a line that is not valid JSON is skipped: the events yielded for a
\* stream are those of the same lines with the malformed ones left out,
\* wherever they stand.
C16_MalformedSkipped ==
  sp.pc = "done" =>
    sp.st.ps.events =
      parseStreamLines(parserInit,
        SelectSeq(split(sp.written), LAMBDA l : ~Malformed(l))).events

\* a malformed line was read and a later line yielded an event
C16_Witness ==
  /\ sp.pc = "done"
  /\ \E i, j \in 1..Len(split(sp.written)) :
       /\ i < j
       /\ Malformed(split(sp.written)[i])
       /\ JSONparse(trim(split(sp.written)[j])) = "start_thinking"
  /\ sp.st.ps.events # <<>>

\* the renderer on its own: one streamToTelegram call
RenderSpec == Init /\ [][RenderNext]_vars

\* C17: every message creation and every edit the renderer issues carries
\* content of at most MAX_MSG_LENGTH characters, entities counted decoded
C17_WithinLimit ==
  \A i \in 1..Len(tg.log) :
    length(Rendered(tg.log[i].text, tg.log[i].parse)) <= MAX_MSG_LENGTH

\* the renderer has returned and no timer callback is still running
tgEnded == Head(tg.main).pc = "done" /\ tg.timers = <<>>

\* the text of a run that consists of TextDelta events only
RECURSIVE TextRun(_)
TextRun(evs) ==
  IF evs = <<>> THEN <<>> ELSE concat(Head(evs).text, TextRun(Tail(evs)))

OnlyText(evs) == \A i \in 1..Len(evs) : evs[i].kind = "text_delta"

\* the text messages the renderer created
TextMessages ==
  {i \in 1..Len(tg.log) : tg.log[i].op = "send" /\ tg.log[i].mode = "text"}

\* C18: when the platform accepts every request, a text run of
\* MAX_MSG_LENGTH + 1 characters ends in exactly two text messages, and a
\* text run without newlines of more than twice and at most three times
\* MAX_MSG_LENGTH characters ends in exactly three
C18_SplitCount ==
  (tgEnded /\ tg.rejects = 0 /\ OnlyText(tg.evs)) =>
    LET n == length(TextRun(tg.evs))
    IN /\ n = MAX_MSG_LENGTH + 1 => Cardinality(TextMessages) = 2
       /\ (/\ n > 2 * MAX_MSG_LENGTH
           /\ n <= 3 * MAX_MSG_LENGTH
           /\ lastIndexOf(TextRun(tg.evs), NL, n) = -1)
            => Cardinality(TextMessages) = 3

\* the requests that carry the metadata footer
FooterRequests == {i \in 1..Len(tg.log) : tg.log[i].mode = "footer"}

HasCompletion(evs) == \E i \in 1..Len(evs) : evs[i].kind = "result"

\* C19: when the platform accepts every request and the run had a Completion
\* event, the footer is delivered exactly once, as an edit of a text message
\* if the run created a text message and as a message of its own otherwise
C19_FooterOnce ==
  (tgEnded /\ tg.rejects = 0 /\ HasCompletion(tg.evs)) =>
    /\ Cardinality(FooterRequests) = 1
    /\ \A i \in FooterRequests :
         tg.log[i].op = "edit" <=> TextMessages # {}

\* the coroutines of the renderer: 0 is the event loop, i >= 1 is the i-th
\* pending editTimer callback
TopFrame(i) == IF i = 0 THEN Head(tg.main) ELSE Head(tg.timers[i])

\* coroutine i waits for the answer to an edit request
EditInFlight(i) == TopFrame(i).pc \in {"seW1", "seW2"}

\* C20: no two edit requests for the same message are in flight at once
C20_OneEditInFlight ==
  \A i, j \in 0..Len(tg.timers) :
    (i # j /\ EditInFlight(i) /\ EditInFlight(j))
      => TopFrame(i).id # TopFrame(j).id

\* the first attempts of the edits that do not finalise message id
Incremental(id) ==
  {i \in 1..Len(tg.log) :
     /\ tg.log[i].op = "edit"
     /\ tg.log[i].parse = "HTML"
     /\ tg.log[i].id = id
     /\ ~tg.log[i].final}

\* C21: two successive edits of a message that do not finalise it are at
\* least EDIT_INTERVAL_MS apart
C21_Throttle ==
  \A id \in 1..Len(tg.msgs) :
    \A i, j \in Incremental(id) :
      i < j => tg.log[j].at - tg.log[i].at >= EDIT_INTERVAL_MS

\* coroutine i waits for the answer to an edit of the message of a state
\* (text, tools or thinking), the footer edit left aside
StateEditInFlight(i) == EditInFlight(i) /\ TopFrame(i).mode # "footer"

\* the event loop waits for the creation of the message of a new state
OpeningState ==
  /\ Len(tg.main) >= 2
  /\ tg.main[1].pc = "snW"
  /\ tg.main[2].pc \in {"td2", "tu2", "ts2", "rs2", "er2"}

\* C22: while the message of a new state is being created no edit of the
\* prior state's message is still awaited, and the edits in flight at any
\* time all belong to the same state
C22_SwitchFinalizesFirst ==
  /\ OpeningState => \A i \in 0..Len(tg.timers) : ~StateEditInFlight(i)
  /\ \A i, j \in 0..Len(tg.timers) :
       (StateEditInFlight(i) /\ StateEditInFlight(j))
         => TopFrame(i).mode = TopFrame(j).mode

\* the unformatted rendering of a formatted text: entities decoded and tags
\* removed
UnformattedPiece(c) ==
  CASE c = "&amp;" -> "&"
    [] c = "<i>t</i>" -> "t"
    [] c = "<i>Thinking...</i>" -> "Thinking..."
    [] c = "<i>Thought for 1.0s</i>" -> "Thought for 1.0s"
    [] c = "<i>Project: p</i>" -> "Project: p"
    [] c = "<i>Project: p | Cost: $0.0100 | Time: 1.0s</i>" ->
         "Project: p | Cost: $0.0100 | Time: 1.0s"
    [] OTHER -> c

Unformatted(text) ==
  LET kept == SelectSeq(text, LAMBDA r :
                r.c \notin {"<blockquote expandable>", "</blockquote>"})
  IN [i \in 1..Len(kept) |-> [c |-> UnformattedPiece(kept[i].c), n |-> kept[i].n]]

\* the request issued by the step, if the step issues one
NewRequest == tg'.log[Len(tg'.log)]

\* the step issues the plain retry of an edit the platform rejected
RetryStep ==
  /\ Len(tg'.log) = Len(tg.log) + 1
  /\ NewRequest.op = "edit"
  /\ NewRequest.parse = "plain"
  /\ NewRequest.after = "rejected"

\* C23: the retry that follows a rejected formatted edit carries the
\* unformatted rendering of the content of that edit
C23_PlainRetry ==
  [][RetryStep =>
       \E i \in 0..Len(tg.timers) :
         /\ TopFrame(i).pc = "seW1"
         /\ TopFrame(i).id = NewRequest.id
         /\ NewRequest.text = Unformatted(TopFrame(i).text)]_vars

\* C24: when the platform rejects no request, streamToTelegram does not
\* reject, and no message shows content that a plain retry put there only
\* because the formatted attempt was answered "message is not modified"
C24_NotModifiedHarmless ==
  /\ tg.rejects = 0 => Head(tg.main).pc # "rejected"
  /\ \A id \in 1..Len(tg.msgs) : tg.msgs[id].after # "not modified"

\* C25: a new queue-status message id is stored only when no queue-status
\* message is stored, so that a stored message is never replaced by another
C25_OneStatusMessage ==
  [][(queueStatusMessageId' # queueStatusMessageId /\ queueStatusMessageId' # 0)
       => queueStatusMessageId = 0]_vars

\* the key has a run whose process is running and was not cancelled
LiveRunOn(key) ==
  \E r \in Runs : runKey[r] = key /\ procLive[r] /\ ~aborted[r]

\* a handlePrompt step for the next text message
SubmitStep == submitted' = submitted + 1

\* a drain loop that took the only queued entry of its cwd off the queue
\* and now enters the next iteration of its while loop
DrainStartStep(l) ==
  /\ hp[l] = "reply"
  /\ hp'[l] # "reply"
  /\ Len(loopPrompt[l]) = 1
  /\ AllIdx(queue, loopCwd[l]) = {}

\* C26: a submission on a key with a live run spawns nothing and makes the
\* queue one entry longer; when the loop of the finished run has taken the
\* only queued entry, a run begins on the same key with exactly that payload.
C26_QueueThenRun ==
  [][/\ (SubmitStep /\ LiveRunOn(processKey(UserId, activeCwd)))
          => (spawnLog' = spawnLog /\ Len(queue') = Len(queue) + 1)
     /\ \A l \in Payloads : DrainStartStep(l)
          => /\ runPc'[loopRun'[l]] # "rejected"
             /\ runKey'[loopRun'[l]] = processKey(UserId, loopCwd[l])
             /\ runPrompt'[loopRun'[l]] = loopPrompt[l]]_vars

SessionSpec == Init /\ [][SessionNext]_vars

\* a spawn with the session id of a Completion still outstanding for the
\* workspace uses that id as its resume token
ResumesEnded(log) ==
  \A k \in 1..Len(log) : log[k].expect # NoSession => log[k].token = log[k].expect

\* loop i comes back from streamToTelegram and stores result.sessionId
StoreStep(i) ==
  /\ i <= Len(ss.loops)
  /\ ss.loops[i].pc = "final"
  /\ ss'.loops[i].pc # "final"

\* C27: a run spawned for a workspace directly after a run there ended with
\* a Completion carrying session id s (and no /new since) gets resume token
\* s, and storing s leaves the tokens of the other workspaces as they were.
C27_ResumeLastSession ==
  [][/\ ResumesEnded(ss'.log)
     /\ \A i \in 1..MaxSsPrompts : StoreStep(i) =>
          \A d \in Cwds \ {ss.loops[i].cwd} : ss'.sessions[d] = ss.sessions[d]]_vars

\* C28: the first run spawned for a workspace after /new was handled for it
\* is spawned without a resume token.
C28_FreshAfterNew ==
  \A k \in 1..Len(ss.log) : ss.log[k].fresh => ss.log[k].token = NoSession

\* /stop leaves no process of the user running uncancelled
StopCancels == Stop => \A r \in Runs : procLive[r] => aborted'[r]

\* no payload that a /stop found queued and not yet run has been passed to
\* a spawned process
StoppedNeverRun == stopPending' \cap PassedPayloads' = {}

\* C29: a handled /stop cancels every run whose process is alive, and no
\* payload that was queued and not yet run when a /stop was handled is part
\* of the prompt of a spawned process afterwards.
C29_StopDiscards == [][StopCancels /\ StoppedNeverRun]_vars

BlockSpec == Init /\ [][BlockNext]_vars

\* the tool_use blocks the process has closed, in order: the name of each
\* and the fragments written between its start and its stop
RECURSIVE ClosedToolBlocks(_, _)
ClosedToolBlocks(lines, cur) ==
  IF lines = <<>> THEN <<>>
  ELSE LET l == Head(lines)
       IN CASE l.type = "content_block_start" /\ l.block = "tool_use" ->
                 ClosedToolBlocks(Tail(lines),
                                  [on |-> TRUE, name |-> l.name, frags |-> <<>>])
            [] l.type = "content_block_start" /\ l.block # "tool_use" ->
                 ClosedToolBlocks(Tail(lines), [cur EXCEPT !.on = FALSE])
            [] l.type = "content_block_delta" /\ l.delta = "input_json_delta"
                 /\ cur.on ->
                 ClosedToolBlocks(Tail(lines),
                                  [cur EXCEPT !.frags = Append(@, l.partial_json)])
            [] l.type = "content_block_stop" /\ cur.on ->
                 <<cur>> \o ClosedToolBlocks(Tail(lines), [cur EXCEPT !.on = FALSE])
            [] OTHER -> ClosedToolBlocks(Tail(lines), cur)

NoBlock == [on |-> FALSE, name |-> "", frags |-> <<>>]

\* the fragments joined in arrival order
RECURSIVE Joined(_)
Joined(frags) ==
  IF frags = <<>> THEN <<>> ELSE Head(frags) \o Joined(Tail(frags))

\* the detail a closed block is to be reported with: taken from the joined
\* text when that is valid JSON, empty otherwise
DetailOf(b) ==
  IF JSONparseInput(Joined(b.frags)).threw THEN ""
  ELSE formatToolInput(b.name, JSONparseInput(Joined(b.frags)).value)

ToolEvents == SelectSeq(tb.ps.events, LAMBDA e : e.kind = "tool_use")

\* C30: the ToolInvocation events emitted so far are, one for one and in
\* order, the tool_use blocks closed so far (none for a block still open),
\* each with the block's name and the detail of its joined fragments, empty
\* when the joined text is not valid JSON.
C30_OneInvocationPerBlock ==
  LET blocks == ClosedToolBlocks(tb.lines, NoBlock)
  IN /\ Len(ToolEvents) = Len(blocks)
     /\ \A k \in 1..Len(blocks) :
          /\ ToolEvents[k].name = blocks[k].name
          /\ ToolEvents[k].input = DetailOf(blocks[k])

\* a block of two fragments that only in arrival order form valid JSON was
\* closed after a block whose text was not valid JSON
C30_Witness ==
  LET blocks == ClosedToolBlocks(tb.lines, NoBlock)
  IN /\ Len(blocks) = 2
     /\ JSONparseInput(Joined(blocks[1].frags)).threw
     /\ Len(blocks[2].frags) = 2
     /\ DetailOf(blocks[2]) = "a"
     /\ Len(ToolEvents) = 2

\* the thinking events emitted so far
ThinkingEvents ==
  SelectSeq(tb.ps.events,
            LAMBDA e : e.kind \in {"thinking_start", "thinking_done"})

\* the elapsed values emitted so far
ElapsedValues ==
  LET done == SelectSeq(tb.ps.events, LAMBDA e : e.kind = "thinking_done")
  IN [k \in 1..Len(done) |-> done[k].durationMs]

\* C31: every ThinkingDone directly follows its own ThinkingStart among the
\* thinking events, there is exactly one per thinking block that a stop
\* record closed, carrying the time the block was open, and a thinking
\* block that is still open has a ThinkingStart and no ThinkingDone.
C31_ThinkingDoneOnlyAtClose ==
  /\ \A k \in 1..Len(ThinkingEvents) :
       ThinkingEvents[k].kind = "thinking_done"
         => k > 1 /\ ThinkingEvents[k - 1].kind = "thinking_start"
  /\ ElapsedValues = tb.spans
  /\ tb.open = "thinking"
       => /\ ThinkingEvents # <<>>
          /\ ThinkingEvents[Len(ThinkingEvents)].kind = "thinking_start"

\* a thinking block was closed after time had passed, a text block was
\* closed too, and a second thinking block is open
C31_Witness ==
  /\ tb.open = "thinking"
  /\ tb.spans = <<1>>
  /\ \E k \in 1..Len(tb.lines) :
       tb.lines[k].type = "content_block_start" /\ tb.lines[k].block = "text"

SplitSpec == Init /\ [][SplitNext]_vars

\* the indices of the newlines of a text; off is the index of its first
\* character
RECURSIVE NewlinesAt(_, _)
NewlinesAt(t, off) ==
  IF t = <<>> THEN {}
  ELSE (IF Head(t).c = NL THEN off..(off + Head(t).n - 1) ELSE {})
         \cup NewlinesAt(Tail(t), off + Head(t).n)

Largest(S) == CHOOSE i \in S : \A j \in S : j <= i

\* the newlines of the split text at or before the limit
NewlinesToLimit == NewlinesAt(ft.text, 0) \cap 0..MAX_MSG_LENGTH

\* the cut is the last newline at or before the limit when the first limit
\* characters hold a newline, else the limit
C32_CutAtLastNewline ==
  ft.pc = "split" =>
    ft.cut = IF NewlinesAt(ft.text, 0) \cap 0..(MAX_MSG_LENGTH - 1) # {}
               THEN Largest(NewlinesToLimit) ELSE MAX_MSG_LENGTH

\* C32: the cut of flushText is the last newline at or before the limit
\* when that newline lies behind the first half of the limit, and the limit
\* itself otherwise (no such newline, or only in the first half).
C32_CutAtLateNewline ==
  ft.pc = "split" =>
    /\ ft.cut = IF NewlinesToLimit # {}
                   /\ 2 * Largest(NewlinesToLimit) > MAX_MSG_LENGTH
                  THEN Largest(NewlinesToLimit) ELSE MAX_MSG_LENGTH
    /\ length(ft.chunk) = ft.cut
    /\ concat(ft.chunk, ft.accumulated) = ft.text

\* a text was cut at a newline behind the first half although a later part
\* of it holds no newline, and the text had an earlier newline as well
C32_Witness ==
  /\ ft.pc = "split"
  /\ ft.cut < MAX_MSG_LENGTH
  /\ ft.cut \in NewlinesAt(ft.text, 0)
  /\ \E i \in NewlinesAt(ft.text, 0) : i < ft.cut

\* the finally block of run r comes to its end
FinallyStep(r) == runPc[r] = "finally" /\ runPc'[r] = "closed"

\* C33: when the finally block of a run ends while the registry holds the
\* entry of another run of the same key, that entry is still there
\* afterwards and the key still has an active process if it had one.
C33_CleanupOwnEntryOnly ==
  [][\A r \in Runs :
       (FinallyStep(r) /\ userProcesses[runKey[r]] \notin {NoRun, r})
         => /\ userProcesses'[runKey[r]] = userProcesses[runKey[r]]
            /\ ~aborted[userProcesses[runKey[r]]]
                 => userProcesses'[runKey[r]] # NoRun]_vars

\* the runAndDrain loops that were entered for the cwd and have not returned
ActiveLoops(cwd) ==
  {l \in Payloads : hp[l] \in {"stream", "final", "cleanup", "reply"}
                      /\ loopCwd[l] = cwd}

\* C34: at no time are two runAndDrain loops active for the same key.
C34_OneLoopPerKey ==
  \A cwd \in Cwds : Cardinality(ActiveLoops(cwd)) <= 1

\* the parts flushText has cut off and handed to the message it then left,
\* in the order of the cuts, as the platform shows them
RECURSIVE CutOff(_)
CutOff(log) ==
  IF log = <<>> THEN <<>>
  ELSE IF Head(log).chunk /\ Head(log).parse = "HTML"
    THEN concat(Rendered(Head(log).text, "HTML"), CutOff(Tail(log)))
    ELSE CutOff(Tail(log))

\* the events whose text the loop has taken in: all events received, but
\* for the one whose handler still waits for its message to be created
\* before it runs accumulated += event.text, or was left when creating the
\* message failed and the loop ended with that exception
TakenIn(evs) ==
  IF \E i \in 1..Len(tg.main) : tg.main[i].pc \in {"td1", "td2", "rejected"}
    THEN SubSeq(evs, 1, Len(evs) - 1)
    ELSE evs

FooterShown(id) ==
  \E i \in FooterRequests :
    /\ tg.log[i].op = "edit"
    /\ tg.log[i].id = id
    /\ Rendered(tg.msgs[id].text, tg.msgs[id].parse) =
         Rendered(tg.log[i].text, tg.log[i].parse)

\* C36: once the final edit with the metadata footer has been applied to
\* the last text message, no later step replaces it: the message keeps
\* displaying the footer.
C36_FooterStays ==
  [][\A id \in 1..Len(tg.msgs) : FooterShown(id) => FooterShown(id)']_vars

\* the renderer has moved on from message id: a later message exists
LeftBehind(id) == id < Len(tg.msgs)

\* a step applies an edit to a message the renderer has moved on from, and
\* the edit is not the one that appends the metadata footer
LateEdit ==
  \E id \in 1..Len(tg.msgs) :
    /\ LeftBehind(id)
    /\ tg.msgs'[id] # tg.msgs[id]
    /\ ~FooterShown(id)'

\* a step completes a message creation that was started for another state
\* than the current one and makes that message the active one
StaleCreation ==
  \E i \in 0..Len(tg.timers) :
    /\ TopFrame(i).pc = "snW"
    /\ TopFrame(i).mode # tg.mode
    /\ IF i = 0 THEN TgAnswerMain("ok") ELSE TgAnswerTimer(i, "ok")
    /\ tg.messageId' # tg.messageId

\* C37: a message the renderer has moved on from receives no further edit
\* except the append of the metadata footer, and no message creation of an
\* earlier state changes the active message id of the current state.
C37_NoLateEffects == [][~LateEdit /\ ~StaleCreation]_vars

\* no handler is in the middle of a step on the queue or its status
\* message: none awaits the creation or the deletion of the status message,
\* and no drain loop is between the end of a run and its next runClaude call
NoHandlerMidStep ==
  /\ pendingCleanup = 0
  /\ \A p \in Payloads : hp[p] \notin {"create", "final", "cleanup", "reply"}

\* C38: whenever no handler is mid-step, a stored queue-status message id
\* implies that the queue holds at least one entry.
C38_StatusImpliesQueued ==
  (NoHandlerMidStep /\ queueStatusMessageId # 0) => queue # <<>>

\* loop i takes a step of a run for which the renderer has seen no
\* Completion event: the spawn or the busy rejection, the exit of the
\* process, or the return of streamToTelegram
StepWithoutCompletion(i) ==
  /\ i <= Len(ss'.loops)
  /\ i > Len(ss.loops) \/ ss'.loops[i] # ss.loops[i]
  /\ ss'.loops[i].result = NoSession

\* C39: a run that ends without a Completion event, the run rejected as
\* busy included, leaves the stored session token of every workspace as it
\* was, from its start to the return of the renderer.
C39_NoCompletionNoStore ==
  [][\A i \in 1..MaxSsPrompts :
       StepWithoutCompletion(i) => ss'.sessions = ss.sessions]_vars

\* a loop has returned after a run without Completion while a token of an
\* earlier run is stored for its workspace, where two runs were spawned
C39_Witness ==
  \E i \in 1..Len(ss.loops) :
    /\ ss.loops[i].pc = "done"
    /\ ss.loops[i].result = NoSession
    /\ ss.sessions[ss.loops[i].cwd] # NoSession
    /\ Cardinality({k \in 1..Len(ss.log) : ss.log[k].cwd = ss.loops[i].cwd}) >= 2

\* C40: stopClaude on a key with no entry or with an entry that is already
\* cancelled returns false and leaves every abort flag as it is, and a
\* second stopClaude on a key returns false and changes nothing the first
\* one left.
C40_StopIdempotent ==
  \A key \in Keys :
    LET entry == userProcesses[key]
        first == stopClaude(aborted, key)
        second == stopClaude(first.aborted, key)
    IN /\ (entry = NoRun \/ aborted[entry]) =>
            (~first.returned /\ first.aborted = aborted)
       /\ (entry # NoRun /\ ~aborted[entry]) =>
            (first.returned /\ first.aborted[entry])
       /\ ~second.returned
       /\ second.aborted = first.aborted

\* /wt rm has cancelled the run of the worktree, whose entry is still
\* stored, while the other key holds an entry that is not cancelled
C40_Witness ==
  /\ cmds = 0
  /\ ~wtExists
  /\ LET e2 == userProcesses[processKey(UserId, "w2")]
         e1 == userProcesses[processKey(UserId, "w1")]
     IN /\ e2 # NoRun /\ aborted[e2] /\ procLive[e2]
        /\ e1 # NoRun /\ ~aborted[e1]

====
